---- MODULE Spec2Model ----
(***************************************************************************)
(* Notes tree store of Cherry Studio.                                      *)
(*                                                                         *)
(* Internal mode : src/renderer/src/services/NotesService.ts               *)
(* External mode : the NotesService variant that starts at line 221 of     *)
(*                 src/renderer/src/components/RichEditor/extensions/      *)
(*                 enhanced-link.ts                                        *)
(*                                                                         *)
(* The forest is kept as the code keeps it: an ordered list of node        *)
(* records, every folder record holding the ordered list of its children.  *)
(* In-place mutation through object references is rendered by rebuilding   *)
(* the forest around the first pre-order occurrence of the mutated id,     *)
(* which is the object findNodeInTree hands out.                           *)
(***************************************************************************)
EXTENDS Integers, Sequences, FiniteSets, TLC

\* ------------------------------------------------------------------ bounds
MaxIds == 3          \* number of uuids that can be drawn
MaxTime == 1         \* largest value of the wall clock
MaxCalls == 3        \* number of service calls in a behaviour
MaxInFlight == 2     \* number of service calls the page has started at once
MaxRequests == 2     \* number of completion previews requested
MaxChunks == 2       \* number of text chunks of one completion stream
MaxCursor == 2       \* largest cursor position in the editor

\* ------------------------------------------------------- program constants
MARKDOWN_EXT == <<".", "m", "d">>

Ids == 1 .. MaxIds
NoId == 0                                  \* an absent (undefined) id
Positions == {"before", "after", "inside"}

\* Names are sequences of one-character strings.
Names == { <<"a">>, <<"B", ".", "M", "D">> }

VARIABLES
  persisted,   \* db.notes_tree record NOTES_TREE_ID: record?.tree || []
  files,       \* FileManager / db.files: fileId -> metadata record
  nextId,      \* number of uuids drawn so far
  now,         \* wall clock read by new Date()
  last,        \* the call that completed last, and what it returned
  calls,       \* number of service calls made so far
  inflight,    \* the service calls started by the notes page and not yet settled
  aiState,     \* the AI state of the editor extension
  streams,     \* completion request -> its stream
  editor       \* the editor: cursor, preview decoration, last insertion, options

\* the AI completion preview of the editor
preview == <<aiState, streams, editor>>

\* what a service call that runs from start to end without another one getting
\* in between leaves alone
pending == <<inflight, aiState, streams, editor>>

\* the notes tree and its services
notes == <<persisted, files, nextId, now, last, calls, inflight>>

vars == <<persisted, files, nextId, now, last, calls, inflight, aiState, streams, editor>>

\* ------------------------------------------------------------- node records
Null == [id |-> NoId, type |-> "null"]
IsNull(n) == n.type = "null"

NoFile == [present |-> FALSE, origin_name |-> <<>>]

\* A treePath is the list of the pieces its string falls into at the '/'
\* characters: '/a.md' is the empty piece followed by the name a.md.
NoPath == <<>>                             \* an absent (undefined) treePath

FolderNode(id, name, t) ==
  [id |-> id, name |-> name, type |-> "folder", treePath |-> NoPath, children |-> <<>>,
   expanded |-> TRUE, is_starred |-> FALSE, fileId |-> NoId,
   createdAt |-> t, updatedAt |-> t]

FileNode(id, name, treePath, t) ==
  [id |-> id, name |-> name, type |-> "file", treePath |-> treePath, children |-> <<>>,
   expanded |-> FALSE, is_starred |-> FALSE, fileId |-> id,
   createdAt |-> t, updatedAt |-> t]

\* ------------------------------------------------------------------ strings
toLowerCase(c) ==
  CASE c = "A" -> "a" [] c = "B" -> "b" [] c = "M" -> "m" [] c = "D" -> "d"
    [] OTHER -> c

LowerName(s) == [i \in 1 .. Len(s) |-> toLowerCase(s[i])]

endsWith(s, suffix) ==
  /\ Len(s) >= Len(suffix)
  /\ SubSeq(s, Len(s) - Len(suffix) + 1, Len(s)) = suffix

\* '.md' appended unless the name ends with exactly these characters
WithMarkdownExtCaseSensitive(name) ==
  IF endsWith(name, MARKDOWN_EXT) THEN name ELSE name \o MARKDOWN_EXT

\* name with '.md' appended unless it already ends with it, ignoring case
WithMarkdownExt(name) ==
  IF endsWith(LowerName(name), MARKDOWN_EXT) THEN name ELSE name \o MARKDOWN_EXT

\* ------------------------------------------------------------ tree helpers
\* a lookup that falls back on the first node of the forest
findNodeOrFirst(tree, nodeId) ==
  IF tree = <<>> THEN Null
  ELSE IF \E i \in 1 .. Len(tree) : tree[i].id = nodeId
    THEN tree[CHOOSE i \in 1 .. Len(tree) : tree[i].id = nodeId]
  ELSE Head(tree)

RECURSIVE findNodeInTree(_, _)
findNodeInTree(tree, nodeId) ==
  IF tree = <<>> THEN Null
  ELSE LET node == Head(tree)
           found == findNodeInTree(node.children, nodeId)
       IN IF node.id = nodeId THEN node
          ELSE IF ~IsNull(found) THEN found
          ELSE findNodeInTree(Tail(tree), nodeId)

RECURSIVE findParentNode(_, _)
findParentNode(tree, targetNodeId) ==
  IF tree = <<>> THEN Null
  ELSE LET node == Head(tree)
           isDirectChild == \E i \in 1 .. Len(node.children) :
                               node.children[i].id = targetNodeId
           parent == findParentNode(node.children, targetNodeId)
       IN IF isDirectChild THEN node
          ELSE IF ~IsNull(parent) THEN parent
          ELSE findParentNode(Tail(tree), targetNodeId)

\* removeNodeFromTree without the descent into children
removeNodeFromTopLevel(tree, nodeId) ==
  [tree |-> SelectSeq(tree, LAMBDA n : n.id # nodeId),
   removed |-> \E i \in 1 .. Len(tree) : tree[i].id = nodeId]

\* [tree |-> the list after the splice, removed |-> the boolean returned]
RECURSIVE removeNodeFromTree(_, _)
removeNodeFromTree(tree, nodeId) ==
  IF tree = <<>> THEN [tree |-> <<>>, removed |-> FALSE]
  ELSE LET node == Head(tree)
           sub == removeNodeFromTree(node.children, nodeId)
           rest == removeNodeFromTree(Tail(tree), nodeId)
       IN IF node.id = nodeId THEN [tree |-> Tail(tree), removed |-> TRUE]
          ELSE IF sub.removed
            THEN [tree |-> <<[node EXCEPT !.children = sub.tree]>> \o Tail(tree),
                  removed |-> TRUE]
          ELSE [tree |-> <<node>> \o rest.tree, removed |-> rest.removed]

\* The forest after the object findNodeInTree(tree, nodeId) returns has been
\* mutated into newNode; no change when the id does not resolve.
RECURSIVE replaceNode(_, _, _)
replaceNode(tree, nodeId, newNode) ==
  IF tree = <<>> THEN <<>>
  ELSE LET node == Head(tree)
       IN IF node.id = nodeId THEN <<newNode>> \o Tail(tree)
          ELSE IF ~IsNull(findNodeInTree(node.children, nodeId))
            THEN <<[node EXCEPT !.children = replaceNode(node.children, nodeId, newNode)]>>
                 \o Tail(tree)
          ELSE <<node>> \o replaceNode(Tail(tree), nodeId, newNode)

\* insertNodeIntoTree without the test of the parent's type
insertNodeIntoAnyNode(tree, node, parentId) ==
  IF parentId = NoId THEN Append(tree, node)
  ELSE LET parent == findNodeInTree(tree, parentId)
       IN IF ~IsNull(parent)
            THEN replaceNode(tree, parentId,
                             [parent EXCEPT !.children = Append(parent.children, node)])
            ELSE tree

\* insertNodeIntoTree with unshift in place of push
insertNodeIntoTreeFirst(tree, node, parentId) ==
  IF parentId = NoId THEN <<node>> \o tree
  ELSE LET parent == findNodeInTree(tree, parentId)
       IN IF ~IsNull(parent) /\ parent.type = "folder"
            THEN replaceNode(tree, parentId,
                             [parent EXCEPT !.children = <<node>> \o parent.children])
            ELSE tree

insertNodeIntoTree(tree, node, parentId) ==
  IF parentId = NoId THEN Append(tree, node)
  ELSE LET parent == findNodeInTree(tree, parentId)
       IN IF ~IsNull(parent) /\ parent.type = "folder"
            THEN replaceNode(tree, parentId,
                             [parent EXCEPT !.children = Append(parent.children, node)])
            ELSE tree

RECURSIVE isParentNode(_, _, _)
RECURSIVE anyChildIsParent(_, _, _)

\* isParentNode with the test of the parent's type inverted
isParentNodeOfFiles(tree, parentId, childId) ==
  LET childNode == findNodeInTree(tree, childId)
      parentNode == findNodeInTree(tree, parentId)
  IN /\ ~IsNull(childNode)
     /\ ~IsNull(parentNode)
     /\ parentNode.type # "folder"
     /\ \E i \in 1 .. Len(parentNode.children) : parentNode.children[i].id = childId

isParentNode(tree, parentId, childId) ==
  LET childNode == findNodeInTree(tree, childId)
      parentNode == findNodeInTree(tree, parentId)
  IN IF IsNull(childNode) THEN FALSE
     ELSE IF IsNull(parentNode) \/ parentNode.type # "folder" THEN FALSE
     ELSE IF \E i \in 1 .. Len(parentNode.children) :
               parentNode.children[i].id = childId THEN TRUE
     ELSE anyChildIsParent(tree, parentNode.children, childId)

\* the loop of isParentNode over parentNode.children
anyChildIsParent(tree, children, childId) ==
  IF children = <<>> THEN FALSE
  ELSE IF isParentNode(tree, Head(children).id, childId) THEN TRUE
  ELSE anyChildIsParent(tree, Tail(children), childId)

\* ------------------------------------------------------------------- paths
\* What the promise returned by buildNodePath(nodeId) resolves to, when the
\* read of the record succeeds: the names from the root down to the node.
RECURSIVE buildNodePath(_, _)
buildNodePath(tree, nodeId) ==
  IF IsNull(findNodeInTree(tree, nodeId)) THEN << <<>>, <<ToString(nodeId)>> >>
  ELSE IF IsNull(findParentNode(tree, nodeId))
    THEN << <<>>, findNodeInTree(tree, nodeId).name >>
  ELSE Append(buildNodePath(tree, findParentNode(tree, nodeId).id),
              findNodeInTree(tree, nodeId).name)

\* A promise put into a template literal: the promise is not awaited, the
\* text is that of Object.prototype.toString whatever it resolves to.
PromiseToString(resolved) == << <<"[object Promise]">> >>

\* getNodePath(name, parentId), tree being the stored record buildNodePath reads
getNodePath(tree, name, parentId) ==
  IF parentId = NoId THEN << <<>>, name >>
  ELSE Append(PromiseToString(buildNodePath(tree, parentId)), name)

\* ---------------------------------------------------------- reconciliation
RECURSIVE collectFileIds(_)
collectFileIds(tree) ==
  IF tree = <<>> THEN <<>>
  ELSE LET node == Head(tree)
       IN (IF node.type = "file" /\ node.fileId # NoId THEN <<node.fileId>> ELSE <<>>)
          \o (IF Len(node.children) > 0 THEN collectFileIds(node.children) ELSE <<>>)
          \o collectFileIds(Tail(tree))

\* updateFileNames without the comparison of the two names: every file that
\* has a record is renamed and stamped
RECURSIVE updateFileNamesAlways(_, _, _)
updateFileNamesAlways(tree, metadataMap, t) ==
  IF tree = <<>> THEN [tree |-> <<>>, hasChanges |-> FALSE]
  ELSE LET node == Head(tree)
           stale == /\ node.type = "file"
                    /\ node.fileId # NoId
                    /\ metadataMap[node.fileId].present
           n1 == IF stale
                   THEN [node EXCEPT !.name = metadataMap[node.fileId].origin_name,
                                     !.updatedAt = t]
                   ELSE node
           sub == updateFileNamesAlways(n1.children, metadataMap, t)
           rest == updateFileNamesAlways(Tail(tree), metadataMap, t)
       IN [tree |-> <<[n1 EXCEPT !.children = sub.tree]>> \o rest.tree,
           hasChanges |-> stale \/ sub.hasChanges \/ rest.hasChanges]

\* [tree |-> the list after the renames, hasChanges |-> the boolean returned]
RECURSIVE updateFileNames(_, _, _)
updateFileNames(tree, metadataMap, t) ==
  IF tree = <<>> THEN [tree |-> <<>>, hasChanges |-> FALSE]
  ELSE LET node == Head(tree)
           stale == /\ node.type = "file"
                    /\ node.fileId # NoId
                    /\ metadataMap[node.fileId].present
                    /\ metadataMap[node.fileId].origin_name # node.name
           n1 == IF stale
                   THEN [node EXCEPT !.name = metadataMap[node.fileId].origin_name,
                                     !.updatedAt = t]
                   ELSE node
           sub == IF Len(n1.children) > 0
                    THEN updateFileNames(n1.children, metadataMap, t)
                    ELSE [tree |-> n1.children, hasChanges |-> FALSE]
           rest == updateFileNames(Tail(tree), metadataMap, t)
       IN [tree |-> <<[n1 EXCEPT !.children = sub.tree]>> \o rest.tree,
           hasChanges |-> stale \/ sub.hasChanges \/ rest.hasChanges]

\* removeDeletedFiles without the descent into children
removeDeletedTopLevelFiles(tree, deletedFileIds) ==
  LET Kept(node) == ~(/\ node.type = "file"
                      /\ node.fileId # NoId
                      /\ \E i \in 1 .. Len(deletedFileIds) : deletedFileIds[i] = node.fileId)
  IN [tree |-> SelectSeq(tree, Kept), hasChanges |-> SelectSeq(tree, Kept) # tree]

\* [tree |-> the list after the splices, hasChanges |-> the boolean returned]
RECURSIVE removeDeletedFiles(_, _)
removeDeletedFiles(tree, deletedFileIds) ==
  IF tree = <<>> THEN [tree |-> <<>>, hasChanges |-> FALSE]
  ELSE LET node == Head(tree)
           gone == /\ node.type = "file"
                   /\ node.fileId # NoId
                   /\ \E i \in 1 .. Len(deletedFileIds) : deletedFileIds[i] = node.fileId
           sub == IF ~gone /\ Len(node.children) > 0
                    THEN removeDeletedFiles(node.children, deletedFileIds)
                    ELSE [tree |-> node.children, hasChanges |-> FALSE]
           rest == removeDeletedFiles(Tail(tree), deletedFileIds)
       IN IF gone THEN [tree |-> rest.tree, hasChanges |-> TRUE]
          ELSE [tree |-> <<[node EXCEPT !.children = sub.tree]>> \o rest.tree,
                hasChanges |-> sub.hasChanges \/ rest.hasChanges]

\* Failure inputs of one getNotesTree call:
\*   get     : db.notes_tree.get rejects
\*   getFile : FileManager.getFile rejects
\*   put     : db.notes_tree.put rejects inside saveNotesTree
LoadFailures == [get : BOOLEAN, getFile : BOOLEAN, put : BOOLEAN]

\* syncFileNamed that takes a rejected FileManager.getFile for a missing record
syncFileNamedDespiteRejection(tree, fileIds, named, pruned, f) ==
  IF Len(fileIds) = 0 THEN [tree |-> tree, save |-> FALSE]
  ELSE [tree |-> pruned.tree, save |-> named.hasChanges \/ pruned.hasChanges]

\* syncFile once the file ids are collected and the names are updated:
\* fileIds is collectFileIds(tree), named the outcome of updateFileNames
syncFileNamed(tree, fileIds, named, pruned, f) ==
  IF Len(fileIds) = 0 THEN [tree |-> tree, save |-> FALSE]
  ELSE IF f.getFile THEN [tree |-> tree, save |-> FALSE]
  ELSE [tree |-> pruned.tree, save |-> named.hasChanges \/ pruned.hasChanges]

\* the removal of the nodes whose file has no record, if there is any
pruneDeleted(named, deletedFileIds) ==
  IF Len(deletedFileIds) > 0
    THEN removeDeletedFiles(named.tree, deletedFileIds)
    ELSE [tree |-> named.tree, hasChanges |-> FALSE]

syncFileCollected(tree, fileIds, named, fls, f) ==
  syncFileNamed(tree, fileIds, named,
                pruneDeleted(named, SelectSeq(fileIds, LAMBDA id : ~fls[id].present)), f)

\* [tree |-> the tree left in memory, save |-> saveNotesTree(tree) is called]
syncFile(tree, fls, t, f) ==
  syncFileCollected(tree, collectFileIds(tree), updateFileNames(tree, fls, t), fls, f)

\* the record after saveNotesTree(tree): a rejected put is logged and dropped
saveNotesTree(rec, tree, putFails) == IF putFails THEN rec ELSE tree

\* getNotesTree once syncFile has run: synced is its outcome
getNotesTreeSynced(rec, synced, f) ==
  IF f.get THEN [tree |-> <<>>, rec |-> rec, wrote |-> FALSE, faults |-> {"get"}]
  ELSE [tree |-> synced.tree,
        rec |-> IF synced.save THEN saveNotesTree(rec, synced.tree, f.put) ELSE rec,
        wrote |-> synced.save /\ ~f.put,
        faults |-> IF Len(collectFileIds(rec)) > 0 /\ f.getFile THEN {"getFile"}
                   ELSE IF synced.save /\ f.put THEN {"syncPut"}
                   ELSE {}]

\* [tree |-> the tree returned, rec |-> the record afterwards,
\*  wrote |-> the record was written, faults |-> the rejections that occurred]
getNotesTree(rec, fls, t, f) == getNotesTreeSynced(rec, syncFile(rec, fls, t, f), f)

\* --------------------------------------------------------------- call log
\* op, a1, a2, a3 : the function called and its arguments
\* ret            : "ok" (resolved), "throw" (rejected), "true" / "false"
\* tree           : the forest returned by getNotesTree
\* wrote          : the call wrote the persisted record
\* faults         : the collaborator calls that rejected during the call
\* error          : what was thrown: "none", "Node not found", "Target name
\*                  already exists", or "rejection" for the error of a
\*                  collaborator passed on
\* io             : what the call did to the backing files and directories
\* attempted      : the fileIds handed to FileManager.deleteFile
\* failed         : those of them for which FileManager.deleteFile rejected
Call(op, a1, a2, a3, ret, tree, wrote, faults) ==
  [op |-> op, a1 |-> a1, a2 |-> a2, a3 |-> a3, ret |-> ret, tree |-> tree,
   wrote |-> wrote, faults |-> faults,
   error |-> IF ret = "throw" THEN "rejection" ELSE "none", io |-> {},
   attempted |-> {}, failed |-> {}]

\* the error of a collaborator in place of one of the function's own
RejectionPassedOn(call) == call

\* throw new Error('Node not found')
NodeNotFound(call) == [call EXCEPT !.error = "Node not found"]

\* throw new Error(`Target name already exists: ${safeName}`)
NameTaken(call) == [call EXCEPT !.error = "Target name already exists"]

\* the call after FileManager.deleteFile was awaited for these fileIds
WithDeletes(call, attempted, failed) ==
  [call EXCEPT !.attempted = attempted, !.failed = attempted \cap failed]

\* the call after window.api.file has carried out these operations
WithIO(call, io) == [call EXCEPT !.io = io]

\* The notes page starts a service call from an event handler and goes on to
\* the next event while the call awaits its storage operations.
\* op, a1, a2 : the function called and its arguments
\* node       : the node the call has built
\* phase      : "idle", "started" (before getNotesTree resolves), "loaded"
\*              (before saveNotesTree resolves), "returned"
\* tree       : the forest getNotesTree resolved to
\* after      : the calls that saved between the load and the save of this
\*              one: their function, their node and the time of the save
Slots == 1 .. MaxInFlight

Idle ==
  [op |-> "none", a1 |-> NoId, a2 |-> NoId, node |-> Null, phase |-> "idle",
   tree |-> <<>>, after |-> {}]

\* The AI state of the editor extension, the completion streams and the editor.
\* A text is the list of its pieces; the piece <<r, i>> is the i-th piece of
\* the response to completion request r.
Requests == 1 .. MaxRequests
NoText == <<>>                             \* the empty string ''
NoPosition == -1                           \* previewPosition null
TextOf(r, n) == [i \in 1 .. n |-> <<r, i>>]

TriggerModes == {"manual", "auto"}

\* aiState as the extension is loaded, the streams not started, the cursor
\* behind some text, nothing decorated or inserted, completionTriggerMode one
\* of modes ('manual' is the default)
NoPreview(modes) ==
  /\ aiState = [previewText |-> NoText, previewPosition |-> NoPosition,
                isPreviewActive |-> FALSE, accumulatedResponse |-> NoText,
                autoCompletionTimer |-> FALSE]
  /\ streams = [r \in Requests |-> [phase |-> "none", sent |-> 0, superseded |-> FALSE]]
  /\ editor \in { [cursor |-> 1, decoration |-> NoText, inserted |-> NoText,
                   insertedAt |-> NoPosition, completionTriggerMode |-> mode] :
                    mode \in modes }

\* a service call is counted
Count == calls < MaxCalls /\ calls' = calls + 1 /\ UNCHANGED pending

PutFault(putFails) == IF putFails THEN {"put"} ELSE {}

Init ==
  /\ persisted = <<>>
  /\ files = [i \in Ids |-> NoFile]
  /\ nextId = 0
  /\ now = 0
  /\ last = Call("init", NoId, NoId, "none", "ok", <<>>, FALSE, {})
  /\ calls = 0
  /\ inflight = [slot \in Slots |-> Idle]
  /\ NoPreview({"manual"})

\* time passes
Tick ==
  /\ now < MaxTime
  /\ now' = now + 1
  /\ UNCHANGED <<persisted, files, nextId, last, calls, pending>>

GetNotesTree(f) ==
  /\ Count
  /\ LET got == getNotesTree(persisted, files, now, f)
     IN /\ persisted' = got.rec
        /\ last' = Call("getNotesTree", NoId, NoId, "none", "ok", got.tree, got.wrote,
                        got.faults)
        /\ UNCHANGED <<files, nextId, now>>

CreateFolder(name, parentId, f, putFails) ==
  /\ Count
  /\ nextId < MaxIds
  /\ LET folderId == nextId + 1
         folder == FolderNode(folderId, name, now)
         got == getNotesTree(persisted, files, now, f)
         tree == insertNodeIntoTree(got.tree, folder, parentId)
     IN /\ nextId' = folderId
        /\ persisted' = saveNotesTree(got.rec, tree, putFails)
        /\ last' = Call("createFolder", folderId, parentId, "none", "ok", <<>>,
                        ~putFails, got.faults \cup PutFault(putFails))
  /\ UNCHANGED <<files, now>>

CreateNote(name, parentId, writeFails, addFileFails, f, putFails) ==
  /\ Count
  /\ nextId < MaxIds
  /\ LET noteId == nextId + 1
         displayName == WithMarkdownExt(name)
         fls == [files EXCEPT ![noteId] = [present |-> TRUE, origin_name |-> displayName]]
         note == FileNode(noteId, displayName, getNodePath(persisted, displayName, parentId),
                          now)
         got == getNotesTree(persisted, fls, now, f)
         tree == insertNodeIntoTree(got.tree, note, parentId)
     IN /\ nextId' = noteId
        /\ IF writeFails \/ addFileFails
             THEN /\ last' = Call("createNote", noteId, parentId, "none", "throw", <<>>,
                                  FALSE, IF writeFails THEN {"write"} ELSE {"addFile"})
                  /\ UNCHANGED <<persisted, files>>
             ELSE /\ files' = fls
                  /\ persisted' = saveNotesTree(got.rec, tree, putFails)
                  /\ last' = Call("createNote", noteId, parentId, "none", "ok", <<>>,
                                  ~putFails, got.faults \cup PutFault(putFails))
  /\ UNCHANGED now

UploadNote(fileName, writeFails, addFileFails, f, putFails) ==
  /\ Count
  /\ nextId < MaxIds
  /\ IF ~endsWith(LowerName(fileName), MARKDOWN_EXT)
       THEN /\ last' = Call("uploadNote", NoId, NoId, "none", "throw", <<>>, FALSE, {})
            /\ UNCHANGED <<persisted, files, nextId>>
       ELSE LET noteId == nextId + 1
                fls == [files EXCEPT ![noteId] = [present |-> TRUE, origin_name |-> fileName]]
                note == FileNode(noteId, fileName, << <<>>, fileName >>, now)
                got == getNotesTree(persisted, fls, now, f)
                tree == Append(got.tree, note)
            IN /\ nextId' = noteId
               /\ IF writeFails \/ addFileFails
                    THEN /\ last' = Call("uploadNote", noteId, NoId, "none", "throw", <<>>,
                                         FALSE, IF writeFails THEN {"write"} ELSE {"addFile"})
                         /\ UNCHANGED <<persisted, files>>
                    ELSE /\ files' = fls
                         /\ persisted' = saveNotesTree(got.rec, tree, putFails)
                         /\ last' = Call("uploadNote", noteId, NoId, "none", "ok", <<>>,
                                         ~putFails, got.faults \cup PutFault(putFails))
  /\ UNCHANGED now

\* deleteNodeRecursively without the folder branch
deleteNodeOnly(node) ==
  IF node.type = "file" /\ node.fileId # NoId THEN {node.fileId} ELSE {}

\* the fileIds deleteNodeRecursively(node) hands to FileManager.deleteFile
RECURSIVE deleteNodeRecursively(_)
RECURSIVE deleteChildrenRecursively(_)
deleteNodeRecursively(node) ==
  IF node.type = "file" /\ node.fileId # NoId THEN {node.fileId}
  ELSE IF node.type = "folder" THEN deleteChildrenRecursively(node.children)
  ELSE {}

\* the loop of deleteNodeRecursively over node.children
deleteChildrenRecursively(children) ==
  IF children = <<>> THEN {}
  ELSE deleteNodeRecursively(Head(children)) \cup deleteChildrenRecursively(Tail(children))

\* deleteNode that gives up at the first FileManager.deleteFile that rejects
DeleteNodeGivingUp(nodeId, f, deleteFails, putFails) ==
  /\ Count
  /\ LET got == getNotesTree(persisted, files, now, f)
         node == findNodeInTree(got.tree, nodeId)
         attempted == deleteNodeRecursively(node)
         done == { i \in attempted : \A j \in attempted \cap deleteFails : i <= j }
         tree == removeNodeFromTree(got.tree, nodeId).tree
     IN /\ IF IsNull(node)
             THEN /\ persisted' = got.rec
                  /\ last' = NodeNotFound(
                            Call("deleteNode", nodeId, NoId, "none", "throw",
                                 <<>>, got.wrote, got.faults))
                  /\ UNCHANGED files
             ELSE IF attempted \cap deleteFails # {}
             THEN /\ files' = [i \in Ids |-> IF i \in done \ deleteFails
                                               THEN NoFile ELSE files[i]]
                  /\ persisted' = got.rec
                  /\ last' = WithDeletes(
                       Call("deleteNode", nodeId, NoId, "none", "throw", <<>>, got.wrote,
                            got.faults \cup {"deleteFile"}),
                       done, deleteFails)
             ELSE /\ files' = [i \in Ids |-> IF i \in attempted THEN NoFile ELSE files[i]]
                  /\ persisted' = saveNotesTree(got.rec, tree, putFails)
                  /\ last' = WithDeletes(
                       Call("deleteNode", nodeId, NoId, "none", "ok", <<>>, ~putFails,
                            got.faults \cup PutFault(putFails)),
                       attempted, deleteFails)
        /\ UNCHANGED <<nextId, now>>

\* deleteFails: the fileIds for which FileManager.deleteFile rejects, leaving
\* the record in place
DeleteNode(nodeId, f, deleteFails, putFails) ==
  /\ Count
  /\ LET got == getNotesTree(persisted, files, now, f)
         node == findNodeInTree(got.tree, nodeId)
         attempted == deleteNodeRecursively(node)
         tree == removeNodeFromTree(got.tree, nodeId).tree
     IN /\ IF IsNull(node)
             THEN /\ persisted' = got.rec
                  /\ last' = NodeNotFound(
                            Call("deleteNode", nodeId, NoId, "none", "throw",
                                 <<>>, got.wrote, got.faults))
                  /\ UNCHANGED files
             ELSE /\ files' = [i \in Ids |-> IF i \in attempted \ deleteFails
                                               THEN NoFile ELSE files[i]]
                  /\ persisted' = saveNotesTree(got.rec, tree, putFails)
                  /\ last' = WithDeletes(
                       Call("deleteNode", nodeId, NoId, "none", "ok", <<>>, ~putFails,
                            got.faults \cup PutFault(putFails)
                              \cup (IF attempted \cap deleteFails # {}
                                      THEN {"deleteFile"} ELSE {})),
                       attempted, deleteFails)
        /\ UNCHANGED <<nextId, now>>

\* metaFails: FileManager.getFile or db.files.update rejects
RenameNode(nodeId, newName, f, metaFails, putFails) ==
  /\ Count
  /\ LET got == getNotesTree(persisted, files, now, f)
         node == findNodeInTree(got.tree, nodeId)
         finalName == IF node.type = "file" THEN WithMarkdownExt(newName) ELSE newName
         tree == replaceNode(got.tree, nodeId,
                             [node EXCEPT !.name = finalName, !.updatedAt = now])
         hasRecord == node.type = "file" /\ node.fileId # NoId
     IN /\ IF IsNull(node)
             THEN /\ persisted' = got.rec
                  /\ last' = NodeNotFound(
                            Call("renameNode", nodeId, newName, "none", "throw",
                                 <<>>, got.wrote, got.faults))
                  /\ UNCHANGED files
             ELSE IF hasRecord /\ metaFails
             THEN /\ persisted' = got.rec
                  /\ last' = Call("renameNode", nodeId, newName, "none", "throw", <<>>,
                                  got.wrote, got.faults \cup {"meta"})
                  /\ UNCHANGED files
             ELSE /\ files' = IF hasRecord /\ files[node.fileId].present
                                THEN [files EXCEPT ![node.fileId].origin_name = finalName]
                                ELSE files
                  /\ persisted' = saveNotesTree(got.rec, tree, putFails)
                  /\ last' = Call("renameNode", nodeId, newName, "none", "ok", <<>>,
                                  ~putFails, got.faults \cup PutFault(putFails))
        /\ UNCHANGED <<nextId, now>>

ToggleNodeExpanded(nodeId, f, putFails) ==
  /\ Count
  /\ LET got == getNotesTree(persisted, files, now, f)
         node == findNodeInTree(got.tree, nodeId)
         tree == replaceNode(got.tree, nodeId, [node EXCEPT !.expanded = ~node.expanded])
         hit == ~IsNull(node) /\ node.type = "folder"
     IN /\ persisted' = IF hit THEN saveNotesTree(got.rec, tree, putFails) ELSE got.rec
        /\ last' = Call("toggleNodeExpanded", nodeId, NoId, "none", "ok", <<>>,
                        IF hit THEN ~putFails ELSE got.wrote,
                        got.faults \cup (IF hit THEN PutFault(putFails) ELSE {}))
        /\ UNCHANGED <<files, nextId, now>>

ToggleStarred(nodeId, f, putFails) ==
  /\ Count
  /\ LET got == getNotesTree(persisted, files, now, f)
         node == findNodeInTree(got.tree, nodeId)
         tree == replaceNode(got.tree, nodeId, [node EXCEPT !.is_starred = ~node.is_starred])
         hit == ~IsNull(node)
     IN /\ persisted' = IF hit THEN saveNotesTree(got.rec, tree, putFails) ELSE got.rec
        /\ last' = Call("toggleStarred", nodeId, NoId, "none", "ok", <<>>,
                        IF hit THEN ~putFails ELSE got.wrote,
                        got.faults \cup (IF hit THEN PutFault(putFails) ELSE {}))
        /\ UNCHANGED <<files, nextId, now>>

\* NotesService.moveNode(nodeId, newParentId?) of the internal variant
MoveNodeToParent(nodeId, newParentId, f, putFails) ==
  /\ Count
  /\ LET got == getNotesTree(persisted, files, now, f)
         node == findNodeInTree(got.tree, nodeId)
         detached == removeNodeFromTree(got.tree, nodeId).tree
         moved == [node EXCEPT !.updatedAt = now,
                               !.treePath = IF node.type = "file"
                                              THEN getNodePath(got.rec, node.name, newParentId)
                                              ELSE node.treePath]
         tree == insertNodeIntoTree(detached, moved, newParentId)
     IN /\ IF IsNull(node)
             THEN /\ persisted' = got.rec
                  /\ last' = NodeNotFound(
                            Call("moveNodeToParent", nodeId, newParentId, "none", "throw",
                                 <<>>, got.wrote, got.faults))
             ELSE /\ persisted' = saveNotesTree(got.rec, tree, putFails)
                  /\ last' = Call("moveNodeToParent", nodeId, newParentId, "none", "ok",
                                  <<>>, ~putFails, got.faults \cup PutFault(putFails))
        /\ UNCHANGED <<files, nextId, now>>

\* index of the first node with this id in a sibling list, 0 for findIndex's -1
findIndex(list, nodeId) ==
  IF \E i \in 1 .. Len(list) : list[i].id = nodeId
    THEN CHOOSE i \in 1 .. Len(list) :
           /\ list[i].id = nodeId
           /\ \A j \in 1 .. i - 1 : list[j].id # nodeId
    ELSE 0

\* list.splice(at, 0, node), at counted from 0
splice(list, at, node) ==
  SubSeq(list, 1, at) \o <<node>> \o SubSeq(list, at + 1, Len(list))

\* The part of sortNodes after the validations: the forest held in memory when
\* the function returns, and whether it got as far as saveNotesTree.
\* rec is the stored record, which getNodePath reads.
\* [tree |-> , ok |-> ]
placeNode(rec, tree, sourceNode, targetNode, position, t) ==
  LET sourceNodeId == sourceNode.id
      targetNodeId == targetNode.id
      detached == removeNodeFromTree(tree, sourceNodeId).tree
      newParentId ==
        IF position = "inside" /\ targetNode.type = "folder" THEN targetNodeId
        ELSE IF IsNull(findParentNode(detached, targetNodeId)) THEN NoId
        ELSE findParentNode(detached, targetNodeId).id
      stamped == [sourceNode EXCEPT !.updatedAt = t,
                                    !.treePath =
                                      IF sourceNode.type = "file"
                                        THEN getNodePath(rec, sourceNode.name, newParentId)
                                        ELSE sourceNode.treePath]
      \* targetNode is the object found before the removal; it is still part
      \* of the forest only if it was not removed along with the source
      target == findNodeInTree(detached, targetNodeId)
      pushed == IF IsNull(target) THEN detached
                ELSE replaceNode(detached, targetNodeId,
                       [target EXCEPT !.children = Append(target.children, stamped),
                                      !.expanded = TRUE])
      targetParent == findParentNode(detached, targetNodeId)
      targetList == IF ~IsNull(targetParent) THEN targetParent.children ELSE detached
      targetIndex == findIndex(targetList, targetNodeId)
      insertIndex == IF position = "before" THEN targetIndex - 1 ELSE targetIndex
      newList == splice(targetList, insertIndex, stamped)
      spliced == IF ~IsNull(targetParent)
                   THEN replaceNode(detached, targetParent.id,
                                    [targetParent EXCEPT !.children = newList])
                   ELSE newList
  IN IF position = "inside" /\ targetNode.type = "folder"
       THEN [tree |-> pushed, ok |-> TRUE]
     ELSE IF targetIndex = 0 THEN [tree |-> detached, ok |-> FALSE]
     ELSE [tree |-> spliced, ok |-> TRUE]

\* the validations of sortNodes: the nodes exist, no folder goes inside a
\* file, no node goes inside itself or a descendant
sortNodesRejects(tree, sourceNode, targetNode, position) ==
  \/ IsNull(sourceNode) \/ IsNull(targetNode)
  \/ position = "inside" /\ targetNode.type = "file" /\ sourceNode.type = "folder"
  \/ position = "inside" /\ isParentNode(tree, sourceNode.id, targetNode.id)

\* sortNodes that saves the forest before it looks at targetIndex
SortNodesSavingFirst(sourceNodeId, targetNodeId, position, f, putFails) ==
  /\ Count
  /\ LET got == getNotesTree(persisted, files, now, f)
         sourceNode == findNodeInTree(got.tree, sourceNodeId)
         targetNode == findNodeInTree(got.tree, targetNodeId)
         placed == placeNode(got.rec, got.tree, sourceNode, targetNode, position, now)
         rejected == sortNodesRejects(got.tree, sourceNode, targetNode, position)
     IN /\ IF rejected
             THEN /\ persisted' = got.rec
                  /\ last' = Call("sortNodes", sourceNodeId, targetNodeId, position, "false",
                                  <<>>, got.wrote, got.faults)
             ELSE /\ persisted' = saveNotesTree(got.rec, placed.tree, putFails)
                  /\ last' = Call("sortNodes", sourceNodeId, targetNodeId, position,
                                  IF placed.ok THEN "true" ELSE "false",
                                  <<>>, ~putFails, got.faults \cup PutFault(putFails))
        /\ UNCHANGED <<files, nextId, now>>

\* NotesService.sortNodes of the internal variant
SortNodes(sourceNodeId, targetNodeId, position, f, putFails) ==
  /\ Count
  /\ LET got == getNotesTree(persisted, files, now, f)
         sourceNode == findNodeInTree(got.tree, sourceNodeId)
         targetNode == findNodeInTree(got.tree, targetNodeId)
         placed == placeNode(got.rec, got.tree, sourceNode, targetNode, position, now)
         rejected == sortNodesRejects(got.tree, sourceNode, targetNode, position)
     IN /\ IF rejected \/ ~placed.ok
             THEN /\ persisted' = got.rec
                  /\ last' = Call("sortNodes", sourceNodeId, targetNodeId, position, "false",
                                  <<>>, got.wrote, got.faults)
             ELSE /\ persisted' = saveNotesTree(got.rec, placed.tree, putFails)
                  /\ last' = Call("sortNodes", sourceNodeId, targetNodeId, position, "true",
                                  <<>>, ~putFails, got.faults \cup PutFault(putFails))
        /\ UNCHANGED <<files, nextId, now>>

\* Another part of the application removes a file from the file manager.
FileDeletedElsewhere(id) ==
  /\ files[id].present
  /\ files' = [files EXCEPT ![id] = NoFile]
  /\ last' = Call("env", id, NoId, "none", "ok", <<>>, FALSE, {})
  /\ UNCHANGED <<persisted, nextId, now, calls, pending>>

\* Another part of the application changes a file's display name.
FileRenamedElsewhere(id, name) ==
  /\ files[id].present
  /\ files[id].origin_name # name
  /\ files' = [files EXCEPT ![id].origin_name = name]
  /\ last' = Call("env", id, NoId, "none", "ok", <<>>, FALSE, {})
  /\ UNCHANGED <<persisted, nextId, now, calls, pending>>

\* ------------------------------------------------------------ external mode
\* getNotesTree of NotesTreeService as moveNode uses it: the persisted forest,
\* the empty forest when the read fails.
extGetNotesTree(rec, getFails) == IF getFails THEN <<>> ELSE rec

\* The node with the treePath of itself and of every node below it derived
\* from the names of its ancestors, whose path is parentPath.
RECURSIVE rebasePaths(_, _)
rebasePaths(node, parentPath) ==
  [node EXCEPT !.treePath = Append(parentPath, node.name),
               !.children = [i \in 1 .. Len(node.children) |->
                               rebasePaths(node.children[i], Append(parentPath, node.name))]]

\* The forest with the treePath of the subtree at nodeId recomputed
recomputeTreePaths(tree, nodeId) ==
  LET parent == findParentNode(tree, nodeId)
      parentPath == IF IsNull(parent) THEN << <<>> >> ELSE buildNodePath(tree, parent.id)
  IN replaceNode(tree, nodeId, rebasePaths(findNodeInTree(tree, nodeId), parentPath))

\* moveNodeInTree of NotesTreeService: detach the source, reattach it at the
\* new position, recompute the paths of the moved subtree, persist; nothing is
\* persisted unless the source is reattached.
\* [rec |-> the record afterwards, ok |-> the boolean returned,
\*  faults |-> the rejections that occurred]
moveNodeInTree(rec, tree, sourceNodeId, targetNodeId, position, t, putFails) ==
  LET sourceNode == findNodeInTree(tree, sourceNodeId)
      targetNode == findNodeInTree(tree, targetNodeId)
      detached == removeNodeFromTree(tree, sourceNodeId).tree
      placed == placeNode(rec, tree, sourceNode, targetNode, position, t)
      refused == [rec |-> rec, ok |-> FALSE, faults |-> {}]
  IN IF IsNull(sourceNode) \/ IsNull(targetNode) THEN refused
     ELSE IF IsNull(findNodeInTree(detached, targetNodeId)) THEN refused
     ELSE IF position = "inside" /\ targetNode.type # "folder" THEN refused
     ELSE IF ~placed.ok THEN refused
     ELSE IF putFails THEN [rec |-> rec, ok |-> FALSE, faults |-> {"put"}]
     ELSE [rec |-> recomputeTreePaths(placed.tree, sourceNodeId), ok |-> TRUE, faults |-> {}]

\* the validations of the external moveNode: those of sortNodes, and nothing
\* goes inside a file
moveNodeRejects(tree, sourceNode, targetNode, position) ==
  \/ IsNull(sourceNode) \/ IsNull(targetNode)
  \/ position = "inside" /\ targetNode.type = "file" /\ sourceNode.type = "folder"
  \/ position = "inside" /\ isParentNode(tree, sourceNode.id, targetNode.id)
  \/ position = "inside" /\ targetNode.type # "folder"

\* What the file system does with the backing file or directory:
\*   "moved"  : window.api.file.move / moveDir succeeds
\*   "same"   : the new path is the old one and nothing is moved
\*   "failed" : checkFileName, move or moveDir rejects
Physical == {"moved", "same", "failed"}

\* NotesService.moveNode(sourceNodeId, targetNodeId, position) of the external variant
MoveNode(sourceNodeId, targetNodeId, position, getFails, physical, putFails) ==
  /\ Count
  /\ LET tree == extGetNotesTree(persisted, getFails)
         sourceNode == findNodeInTree(tree, sourceNodeId)
         targetNode == findNodeInTree(tree, targetNodeId)
         rejected == moveNodeRejects(tree, sourceNode, targetNode, position)
         moved == moveNodeInTree(persisted, tree, sourceNodeId, targetNodeId, position, now,
                                 putFails)
         getFault == IF getFails THEN {"get"} ELSE {}
     IN /\ IF rejected
             THEN /\ last' = Call("moveNode", sourceNodeId, targetNodeId, position, "false",
                                  <<>>, FALSE, getFault)
                  /\ UNCHANGED persisted
             ELSE IF physical = "failed"
             THEN /\ last' = Call("moveNode", sourceNodeId, targetNodeId, position, "false",
                                  <<>>, FALSE, {"physical"})
                  /\ UNCHANGED persisted
             ELSE /\ persisted' = moved.rec
                  /\ last' = WithIO(Call("moveNode", sourceNodeId, targetNodeId, position,
                                         IF moved.ok THEN "true" ELSE "false", <<>>, moved.ok,
                                         moved.faults),
                                    IF physical = "moved" THEN {"move"} ELSE {})
        /\ UNCHANGED <<files, nextId, now>>

\* removeNodeFromTree of NotesTreeService as deleteNode uses it: remove the
\* node, persist.
\* [rec |-> the record afterwards, faults |-> the rejections that occurred]
extRemoveNodeFromTree(rec, tree, nodeId, putFails) ==
  IF putFails THEN [rec |-> rec, faults |-> {"put"}]
  ELSE [rec |-> removeNodeFromTree(tree, nodeId).tree, faults |-> {}]

\* NotesService.deleteNode(nodeId) of the external variant. The promise of
\* removeNodeFromTree is not awaited: its rejection does not reach the caller.
ExternalDeleteNode(nodeId, getFails, deleteFails, putFails) ==
  /\ Count
  /\ LET tree == extGetNotesTree(persisted, getFails)
         node == findNodeInTree(tree, nodeId)
         removed == extRemoveNodeFromTree(persisted, tree, nodeId, putFails)
         getFault == IF getFails THEN {"get"} ELSE {}
     IN /\ IF IsNull(node)
             THEN /\ last' = NodeNotFound(
                            Call("externalDeleteNode", nodeId, NoId, "none", "throw",
                                 <<>>, FALSE, getFault))
                  /\ UNCHANGED persisted
             ELSE IF deleteFails
             THEN /\ last' = Call("externalDeleteNode", nodeId, NoId, "none", "throw",
                                  <<>>, FALSE, {"delete"})
                  /\ UNCHANGED persisted
             ELSE /\ persisted' = removed.rec
                  /\ last' = WithIO(Call("externalDeleteNode", nodeId, NoId, "none", "ok",
                                         <<>>, ~putFails, removed.faults),
                                    {"delete"})
        /\ UNCHANGED <<files, nextId, now>>

\* renameNodeFromTree of NotesTreeService: set the name and updatedAt of the
\* node, let the treePath of a node that has one end with the new name, persist.
\* [rec |-> the record afterwards, ok |-> it resolved,
\*  faults |-> the rejections that occurred]
renameNodeFromTree(rec, tree, nodeId, newName, t, putFails) ==
  LET node == findNodeInTree(tree, nodeId)
      renamed == [node EXCEPT !.name = newName,
                              !.updatedAt = t,
                              !.treePath = IF node.treePath = NoPath THEN NoPath
                                           ELSE Append(SubSeq(node.treePath, 1,
                                                              Len(node.treePath) - 1),
                                                       newName)]
  IN IF IsNull(node) THEN [rec |-> rec, ok |-> FALSE, faults |-> {}]
     ELSE IF putFails THEN [rec |-> rec, ok |-> FALSE, faults |-> {"put"}]
     ELSE [rec |-> replaceNode(tree, nodeId, renamed), ok |-> TRUE, faults |-> {}]

\* What window.api.file.checkFileName(dirPath, newName, isFile) answers:
\*   "free"   : exists is false, safeName is the requested name
\*   "taken"  : exists is true
\*   "failed" : the call rejects
CheckFileName == {"free", "taken", "failed"}

\* renameNode of the external variant renaming before it looks at exists
ExternalRenameNodeRenamingFirst(nodeId, newName, getFails, check, renameFails, putFails) ==
  /\ Count
  /\ LET tree == extGetNotesTree(persisted, getFails)
         node == findNodeInTree(tree, nodeId)
         safeName == newName
         renamed == renameNodeFromTree(persisted, tree, nodeId, safeName, now, putFails)
         getFault == IF getFails THEN {"get"} ELSE {}
     IN /\ IF IsNull(node)
             THEN /\ last' = NodeNotFound(
                            Call("externalRenameNode", nodeId, newName, check, "throw",
                                 <<>>, FALSE, getFault))
                  /\ UNCHANGED persisted
             ELSE IF check = "failed"
             THEN /\ last' = Call("externalRenameNode", nodeId, newName, check, "throw",
                                  <<>>, FALSE, {"checkFileName"})
                  /\ UNCHANGED persisted
             ELSE IF check = "taken" /\ ~renameFails
             THEN /\ last' = WithIO(NameTaken(
                                   Call("externalRenameNode", nodeId, newName, check, "throw",
                                        <<>>, FALSE, {})),
                                    {"rename"})
                  /\ UNCHANGED persisted
             ELSE IF renameFails
             THEN /\ last' = Call("externalRenameNode", nodeId, newName, check, "throw",
                                  <<>>, FALSE, {"rename"})
                  /\ UNCHANGED persisted
             ELSE /\ persisted' = renamed.rec
                  /\ last' = WithIO(Call("externalRenameNode", nodeId, newName, check,
                                         IF renamed.ok THEN "ok" ELSE "throw",
                                         <<>>, renamed.ok, renamed.faults),
                                    {"rename"})
        /\ UNCHANGED <<files, nextId, now>>

\* NotesService.renameNode(nodeId, newName) of the external variant
\* renameFails: window.api.file.rename / renameDir rejects
\* The answer of checkFileName is logged as a3.
ExternalRenameNode(nodeId, newName, getFails, check, renameFails, putFails) ==
  /\ Count
  /\ LET tree == extGetNotesTree(persisted, getFails)
         node == findNodeInTree(tree, nodeId)
         safeName == newName
         renamed == renameNodeFromTree(persisted, tree, nodeId, safeName, now, putFails)
         getFault == IF getFails THEN {"get"} ELSE {}
     IN /\ IF IsNull(node)
             THEN /\ last' = NodeNotFound(
                            Call("externalRenameNode", nodeId, newName, check, "throw",
                                 <<>>, FALSE, getFault))
                  /\ UNCHANGED persisted
             ELSE IF check = "failed"
             THEN /\ last' = Call("externalRenameNode", nodeId, newName, check, "throw",
                                  <<>>, FALSE, {"checkFileName"})
                  /\ UNCHANGED persisted
             ELSE IF check = "taken"
             THEN /\ last' = NameTaken(
                            Call("externalRenameNode", nodeId, newName, check, "throw",
                                 <<>>, FALSE, {}))
                  /\ UNCHANGED persisted
             ELSE IF renameFails
             THEN /\ last' = Call("externalRenameNode", nodeId, newName, check, "throw",
                                  <<>>, FALSE, {"rename"})
                  /\ UNCHANGED persisted
             ELSE /\ persisted' = renamed.rec
                  /\ last' = WithIO(Call("externalRenameNode", nodeId, newName, check,
                                         IF renamed.ok THEN "ok" ELSE "throw",
                                         <<>>, renamed.ok, renamed.faults),
                                    {"rename"})
        /\ UNCHANGED <<files, nextId, now>>

\* ------------------------------------------------------------------ sorting
NoTime == -1                               \* an absent createdAt / updatedAt

SortTypes ==
  {"sort_a2z", "sort_z2a", "sort_updated_desc", "sort_updated_asc",
   "sort_created_desc", "sort_created_asc"}

\* primary collation weight of a character: punctuation before letters,
\* letters in alphabetical order whatever their case
Primary(c) ==
  CASE toLowerCase(c) = "." -> 0
    [] toLowerCase(c) = "a" -> 1
    [] toLowerCase(c) = "b" -> 2
    [] toLowerCase(c) = "d" -> 4
    [] toLowerCase(c) = "m" -> 13
    [] OTHER -> 27

RECURSIVE comparePrimary(_, _)
comparePrimary(a, b) ==
  IF a = <<>> THEN (IF b = <<>> THEN 0 ELSE -1)
  ELSE IF b = <<>> THEN 1
  ELSE IF Primary(Head(a)) < Primary(Head(b)) THEN -1
  ELSE IF Primary(Head(a)) > Primary(Head(b)) THEN 1
  ELSE comparePrimary(Tail(a), Tail(b))

\* tertiary difference of two names of equal primary weights: at the first
\* character that differs the lower-case one comes first
RECURSIVE compareCase(_, _)
compareCase(a, b) ==
  IF a = <<>> \/ b = <<>> THEN 0
  ELSE IF Head(a) = Head(b) THEN compareCase(Tail(a), Tail(b))
  ELSE IF Head(a) = toLowerCase(Head(a)) THEN -1
  ELSE 1

\* String.prototype.localeCompare: names without accents, so that sensitivity
\* 'accent' stops at the primary weights and the default goes on to the case
localeCompare(a, b, sensitivity) ==
  IF comparePrimary(a, b) # 0 \/ sensitivity = "accent" THEN comparePrimary(a, b)
  ELSE compareCase(a, b)

\* x ? new Date(x).getTime() : 0 -- a timestamp is carried as the number of
\* milliseconds its ISO string denotes
getTime(x) == IF x = NoTime THEN 0 ELSE x

\* getSortFunction in which sort_updated_asc reads createdAt
getSortFunctionCreated(sortType, a, b) ==
  CASE sortType = "sort_a2z" -> localeCompare(a.name, b.name, "accent")
    [] sortType = "sort_z2a" -> localeCompare(b.name, a.name, "accent")
    [] sortType = "sort_updated_desc" -> getTime(b.updatedAt) - getTime(a.updatedAt)
    [] sortType = "sort_updated_asc" -> getTime(a.createdAt) - getTime(b.createdAt)
    [] sortType = "sort_created_desc" -> getTime(b.createdAt) - getTime(a.createdAt)
    [] sortType = "sort_created_asc" -> getTime(a.createdAt) - getTime(b.createdAt)
    [] OTHER -> localeCompare(a.name, b.name, "variant")

\* getSortFunction(sortType)(a, b)
getSortFunction(sortType, a, b) ==
  CASE sortType = "sort_a2z" -> localeCompare(a.name, b.name, "accent")
    [] sortType = "sort_z2a" -> localeCompare(b.name, a.name, "accent")
    [] sortType = "sort_updated_desc" -> getTime(b.updatedAt) - getTime(a.updatedAt)
    [] sortType = "sort_updated_asc" -> getTime(a.updatedAt) - getTime(b.updatedAt)
    [] sortType = "sort_created_desc" -> getTime(b.createdAt) - getTime(a.createdAt)
    [] sortType = "sort_created_asc" -> getTime(a.createdAt) - getTime(b.createdAt)
    [] OTHER -> localeCompare(a.name, b.name, "variant")

\* Array.prototype.sort, which is stable: x goes before the first element
\* that compares greater than it
RECURSIVE insertSorted(_, _, _)
insertSorted(sorted, x, sortType) ==
  IF sorted = <<>> THEN <<x>>
  ELSE IF getSortFunction(sortType, Head(sorted), x) > 0 THEN <<x>> \o sorted
  ELSE <<Head(sorted)>> \o insertSorted(Tail(sorted), x, sortType)

RECURSIVE sort(_, _)
sort(list, sortType) ==
  IF list = <<>> THEN <<>>
  ELSE insertSorted(sort(SubSeq(list, 1, Len(list) - 1), sortType), list[Len(list)],
                    sortType)

\* sortNodesArray that pushes the files before the folders
sortNodesArrayFilesFirst(nodes, sortType) ==
  LET folders == SelectSeq(nodes, LAMBDA node : node.type = "folder")
      fls == SelectSeq(nodes, LAMBDA node : node.type = "file")
  IN sort(fls, sortType) \o sort(folders, sortType)

\* the array sortNodesArray leaves in nodes
sortNodesArray(nodes, sortType) ==
  LET folders == SelectSeq(nodes, LAMBDA node : node.type = "folder")
      fls == SelectSeq(nodes, LAMBDA node : node.type = "file")
  IN sort(folders, sortType) \o sort(fls, sortType)

\* the array recursiveSortNodes leaves in nodes
RECURSIVE recursiveSortNodes(_, _)
recursiveSortNodes(nodes, sortType) ==
  [i \in 1 .. Len(nodes) |->
     IF nodes[i].type = "folder" /\ Len(nodes[i].children) > 0
       THEN [nodes[i] EXCEPT !.children =
               recursiveSortNodes(sortNodesArray(nodes[i].children, sortType), sortType)]
       ELSE nodes[i]]

\* the optional argument tree of sortAllLevels
NoTree == [given |-> FALSE, tree |-> <<>>]

\* sortAllLevels(sortType, tree?)
SortAllLevels(sortType, passed, getFails, putFails) ==
  /\ Count
  /\ LET tree == IF passed.given THEN passed.tree ELSE extGetNotesTree(persisted, getFails)
         sorted == recursiveSortNodes(sortNodesArray(tree, sortType), sortType)
         getFault == IF getFails /\ ~passed.given THEN {"get"} ELSE {}
     IN /\ persisted' = IF putFails THEN persisted ELSE sorted
        /\ last' = Call("sortAllLevels", NoId, NoId, sortType,
                        IF putFails THEN "throw" ELSE "ok", <<>>, ~putFails,
                        getFault \cup PutFault(putFails))
  /\ UNCHANGED <<files, nextId, now>>

\* ------------------------------------------------------------ specifications
AnyId == Ids \cup {NoId}

NoLoadFailure == [get |-> FALSE, getFile |-> FALSE, put |-> FALSE]

\* one failing collaborator call per getNotesTree at most
OneLoadFailure ==
  { f \in LoadFailures : Cardinality({k \in {"get", "getFile", "put"} : f[k]}) <= 1 }

\* the create, delete, rename and flag operations of the internal variant
Edits(NameSet, LF, PF) ==
  \/ \E name \in NameSet, parentId \in AnyId, f \in LF, pf \in PF :
       CreateFolder(name, parentId, f, pf)
  \/ \E name \in NameSet, parentId \in AnyId, wf \in PF, af \in PF, f \in LF, pf \in PF :
       CreateNote(name, parentId, wf, af, f, pf)
  \/ \E name \in NameSet, wf \in PF, af \in PF, f \in LF, pf \in PF :
       UploadNote(name, wf, af, f, pf)
  \/ \E id \in Ids, f \in LF, df \in SUBSET Ids, pf \in PF :
       (PF = {FALSE} => df = {}) /\ DeleteNode(id, f, df, pf)
  \/ \E id \in Ids, name \in NameSet, f \in LF, mf \in PF, pf \in PF :
       RenameNode(id, name, f, mf, pf)
  \/ \E id \in Ids, f \in LF, pf \in PF : ToggleNodeExpanded(id, f, pf)
  \/ \E id \in Ids, f \in LF, pf \in PF : ToggleStarred(id, f, pf)

\* the move operations of both variants
Moves(LF, PF) ==
  \/ \E id \in Ids, parentId \in AnyId, f \in LF, pf \in PF :
       MoveNodeToParent(id, parentId, f, pf)
  \/ \E s \in Ids, t \in Ids, p \in Positions, f \in LF, pf \in PF :
       SortNodes(s, t, p, f, pf)
  \/ \E s \in Ids, t \in Ids, p \in Positions, gf \in PF, ph \in Physical, pf \in PF :
       MoveNode(s, t, p, gf, ph, pf)

Environment(NameSet) ==
  \/ \E id \in Ids : FileDeletedElsewhere(id)
  \/ \E id \in Ids, name \in NameSet : FileRenamedElsewhere(id, name)

Next ==
  \/ Tick
  \/ \E f \in OneLoadFailure : GetNotesTree(f)
  \/ Edits(Names, OneLoadFailure, BOOLEAN)
  \/ Moves(OneLoadFailure, BOOLEAN)
  \/ \E id \in Ids, gf \in BOOLEAN, df \in BOOLEAN, pf \in BOOLEAN :
       ExternalDeleteNode(id, gf, df, pf)
  \/ \E id \in Ids, name \in Names, gf \in BOOLEAN, check \in CheckFileName,
        rf \in BOOLEAN, pf \in BOOLEAN :
       ExternalRenameNode(id, name, gf, check, rf, pf)
  \/ Environment(Names)

Spec == Init /\ [][Next]_vars

\* Moving nodes around a forest built without storage failures.
MoveNames == { <<"a">> }
UploadNames == { <<"a">>, <<"B", ".", "M", "D">> }

GetFailure == { f \in OneLoadFailure : ~f.getFile /\ ~f.put }

NextMove ==
  \/ \E name \in MoveNames, parentId \in AnyId :
       CreateFolder(name, parentId, NoLoadFailure, FALSE)
  \/ \E name \in MoveNames, parentId \in AnyId :
       CreateNote(name, parentId, FALSE, FALSE, NoLoadFailure, FALSE)
  \/ Moves(GetFailure, BOOLEAN)

SpecMove == Init /\ [][NextMove]_vars

\* Every operation of the internal variant and the moves of both, on one
\* name per node type; only the delete meets storage failures.
NextEdit ==
  \/ \E name \in MoveNames, parentId \in AnyId :
       CreateFolder(name, parentId, NoLoadFailure, FALSE)
  \/ \E name \in MoveNames, parentId \in AnyId :
       CreateNote(name, parentId, FALSE, FALSE, NoLoadFailure, FALSE)
  \/ \E name \in UploadNames : UploadNote(name, FALSE, FALSE, NoLoadFailure, FALSE)
  \/ \E id \in Ids, df \in SUBSET Ids, pf \in BOOLEAN :
       DeleteNode(id, NoLoadFailure, df, pf)
  \/ \E id \in Ids, name \in MoveNames : RenameNode(id, name, NoLoadFailure, FALSE, FALSE)
  \/ \E id \in Ids : ToggleNodeExpanded(id, NoLoadFailure, FALSE)
  \/ \E id \in Ids : ToggleStarred(id, NoLoadFailure, FALSE)
  \/ Moves({NoLoadFailure}, {FALSE})

SpecEdit == Init /\ [][NextEdit]_vars

\* Loading the forest while the file manager changes underneath it.
NextSync ==
  \/ Tick
  \/ \E f \in OneLoadFailure : GetNotesTree(f)
  \/ \E name \in MoveNames, parentId \in AnyId :
       CreateFolder(name, parentId, NoLoadFailure, FALSE)
  \/ \E name \in MoveNames, parentId \in AnyId :
       CreateNote(name, parentId, FALSE, FALSE, NoLoadFailure, FALSE)
  \/ Environment(UploadNames \ MoveNames)

SpecSync == Init /\ [][NextSync]_vars

\* Creating, renaming, deleting and loading while one collaborator call of an
\* operation may be rejected: the write of the file, the call of the metadata
\* store, one call of the load, or the write of the tree record.
OneFault ==
  { r \in [write : BOOLEAN, meta : BOOLEAN, load : OneLoadFailure, put : BOOLEAN] :
      Cardinality({ k \in {"write", "meta", "put"} : r[k] }
                    \cup { k \in {"load"} : r.load # NoLoadFailure }) <= 1 }

\* the same when the operation has no file to write, or no record to update either
OneFaultNoWrite == { r \in OneFault : ~r.write }

OneFaultOfTree == { r \in OneFault : ~r.write /\ ~r.meta }

NextFault ==
  \/ Tick
  \/ \E f \in OneLoadFailure : GetNotesTree(f)
  \/ \E name \in MoveNames, parentId \in AnyId, r \in OneFaultOfTree :
       CreateFolder(name, parentId, r.load, r.put)
  \/ \E name \in MoveNames, parentId \in AnyId, r \in OneFault :
       CreateNote(name, parentId, r.write, r.meta, r.load, r.put)
  \/ \E id \in Ids, name \in UploadNames, r \in OneFaultNoWrite :
       RenameNode(id, name, r.load, r.meta, r.put)
  \/ \E id \in Ids, r \in OneFaultOfTree : DeleteNode(id, r.load, {}, r.put)

SpecFault == Init /\ [][NextFault]_vars

\* Deleting and renaming in both variants, nodes that exist and ids of none.
NextExternal ==
  \/ \E name \in MoveNames, parentId \in AnyId :
       CreateFolder(name, parentId, NoLoadFailure, FALSE)
  \/ \E name \in MoveNames, parentId \in AnyId :
       CreateNote(name, parentId, FALSE, FALSE, NoLoadFailure, FALSE)
  \/ \E id \in Ids, r \in OneFaultOfTree : DeleteNode(id, r.load, {}, r.put)
  \/ \E id \in Ids, name \in UploadNames, r \in OneFaultNoWrite :
       RenameNode(id, name, r.load, r.meta, r.put)
  \/ \E id \in Ids, gf \in BOOLEAN, df \in BOOLEAN, pf \in BOOLEAN :
       ExternalDeleteNode(id, gf, df, pf)
  \/ \E id \in Ids, name \in UploadNames, gf \in BOOLEAN, check \in CheckFileName,
        rf \in BOOLEAN, pf \in BOOLEAN :
       ExternalRenameNode(id, name, gf, check, rf, pf)

SpecExternal == Init /\ [][NextExternal]_vars

\* Sorting a stored forest of MaxIds nodes: every arrangement of node types,
\* of two names that differ in case and of timestamps present and absent, at
\* the top level or under one folder.
Looks ==
  { [name |-> <<"a">>, createdAt |-> NoTime, updatedAt |-> MaxTime],
    [name |-> <<"B", ".", "M", "D">>, createdAt |-> 0, updatedAt |-> NoTime],
    [name |-> <<"a">>, createdAt |-> MaxTime, updatedAt |-> 0] }

StoredNode(id, type, look) ==
  [(IF type = "folder" THEN FolderNode(id, look.name, look.createdAt)
    ELSE FileNode(id, look.name, << <<>>, look.name >>, look.createdAt))
     EXCEPT !.updatedAt = look.updatedAt]

StoredLists(ids) ==
  { [i \in 1 .. Len(ids) |-> StoredNode(ids[i], ty[i], lk[i])] :
      ty \in [1 .. Len(ids) -> {"folder", "file"}],
      lk \in [1 .. Len(ids) -> Looks] }

StoredForests ==
  StoredLists([i \in 1 .. MaxIds |-> i])
    \cup { <<[StoredNode(MaxIds, "folder", look) EXCEPT !.children = list]>> :
             look \in Looks, list \in StoredLists([i \in 1 .. MaxIds - 1 |-> i]) }

InitSort ==
  /\ persisted \in StoredForests
  /\ files = [i \in Ids |-> NoFile]
  /\ nextId = MaxIds
  /\ now = MaxTime
  /\ last = Call("init", NoId, NoId, "none", "ok", <<>>, FALSE, {})
  /\ calls = 0
  /\ inflight = [slot \in Slots |-> Idle]
  /\ NoPreview({"manual"})

NextSort ==
  \E sortType \in SortTypes, gf \in BOOLEAN, pf \in BOOLEAN :
    SortAllLevels(sortType, NoTree, gf, pf)

SpecSort == InitSort /\ [][NextSort]_vars

\* The operations of the internal variant that create, rename, move and delete
\* notes, with no storage call failing.
NextStore ==
  \/ \E name \in MoveNames, parentId \in AnyId :
       CreateFolder(name, parentId, NoLoadFailure, FALSE)
  \/ \E name \in MoveNames, parentId \in AnyId :
       CreateNote(name, parentId, FALSE, FALSE, NoLoadFailure, FALSE)
  \/ \E name \in UploadNames : UploadNote(name, FALSE, FALSE, NoLoadFailure, FALSE)
  \/ \E id \in Ids, name \in MoveNames : RenameNode(id, name, NoLoadFailure, FALSE, FALSE)
  \/ \E id \in Ids, parentId \in AnyId : MoveNodeToParent(id, parentId, NoLoadFailure, FALSE)
  \/ \E s \in Ids, t \in Ids, p \in Positions : SortNodes(s, t, p, NoLoadFailure, FALSE)
  \/ \E id \in Ids : DeleteNode(id, NoLoadFailure, {}, FALSE)

SpecStore == Init /\ [][NextStore]_vars

\* Deleting from a stored forest of MaxIds nodes whose notes have their
\* records in the file manager.
RecordsOf(tree) ==
  [i \in Ids |->
     IF findNodeInTree(tree, i).type = "file"
       THEN [present |-> TRUE, origin_name |-> findNodeInTree(tree, i).name]
       ELSE NoFile]

\* the nodes are folders and notes named a, at the top level or under one folder
DeleteLists(ids) ==
  { [i \in 1 .. Len(ids) |->
       StoredNode(ids[i], ty[i], [name |-> <<"a">>, createdAt |-> 0, updatedAt |-> 0])] :
      ty \in [1 .. Len(ids) -> {"folder", "file"}] }

DeleteForests ==
  DeleteLists([i \in 1 .. MaxIds |-> i])
    \cup { <<[FolderNode(MaxIds, <<"a">>, 0) EXCEPT !.children = list]>> :
             list \in DeleteLists([i \in 1 .. MaxIds - 1 |-> i]) }

InitDelete ==
  /\ persisted \in DeleteForests
  /\ files = RecordsOf(persisted)
  /\ nextId = MaxIds
  /\ now = MaxTime
  /\ last = Call("init", NoId, NoId, "none", "ok", <<>>, FALSE, {})
  /\ calls = 0
  /\ inflight = [slot \in Slots |-> Idle]
  /\ NoPreview({"manual"})

NextDelete ==
  \E id \in Ids, df \in SUBSET Ids, pf \in BOOLEAN : DeleteNode(id, NoLoadFailure, df, pf)

SpecDelete == InitDelete /\ [][NextDelete]_vars

\* ------------------------------------------------------------ the notes page
\* The handlers of the notes page are async functions called from events; the
\* editor's onChange calls saveCurrentNote without awaiting it. Nothing makes
\* a handler wait for a service call started by another one, so a call that
\* awaits getNotesTree or saveNotesTree leaves room for the steps of another.

\* updateNote once the forest is read: the note's updatedAt is set
RECURSIVE touchNode(_, _, _)
touchNode(tree, nodeId, t) ==
  [i \in 1 .. Len(tree) |->
     IF tree[i].id = nodeId THEN [tree[i] EXCEPT !.updatedAt = t]
     ELSE [tree[i] EXCEPT !.children = touchNode(tree[i].children, nodeId, t)]]

\* a call that reads the record again when it saves
treeReadAgain(call, rec) == rec

\* the forest a started call changes and saves: the one its getNotesTree
\* resolved to, kept in the local variable tree
treeOfCall(call, rec) == call.tree

\* a call that starts takes the first slot that holds no call under way
Free(slot) ==
  /\ inflight[slot].phase \in {"idle", "returned"}
  /\ \A s \in 1 .. slot - 1 : inflight[s].phase \in {"started", "loaded"}

\* handleCreateFolder up to the await of getNotesTree inside createFolder
StartCreateFolder(slot, name, parentId) ==
  /\ calls < MaxCalls
  /\ calls' = calls + 1
  /\ Free(slot)
  /\ nextId < MaxIds
  /\ nextId' = nextId + 1
  /\ inflight' = [inflight EXCEPT ![slot] =
       [op |-> "createFolder", a1 |-> nextId + 1, a2 |-> parentId,
        node |-> FolderNode(nextId + 1, name, now), phase |-> "started",
        tree |-> <<>>, after |-> {}]]
  /\ UNCHANGED <<persisted, files, now, last>>
  /\ UNCHANGED preview

\* handleMarkdownChange: saveCurrentNote calls updateNote on the active node,
\* a file node of the displayed forest whose record exists, up to the await of
\* getNotesTree inside updateNote
StartUpdateNote(slot, nodeId) ==
  /\ calls < MaxCalls
  /\ calls' = calls + 1
  /\ Free(slot)
  /\ findNodeInTree(persisted, nodeId).type = "file"
  /\ files[nodeId].present
  /\ inflight' = [inflight EXCEPT ![slot] =
       [op |-> "updateNote", a1 |-> nodeId, a2 |-> NoId,
        node |-> findNodeInTree(persisted, nodeId), phase |-> "started",
        tree |-> <<>>, after |-> {}]]
  /\ UNCHANGED <<persisted, files, nextId, now, last>>
  /\ UNCHANGED preview

\* getNotesTree resolves inside a started call
LoadTree(slot) ==
  /\ inflight[slot].phase = "started"
  /\ LET got == getNotesTree(persisted, files, now, NoLoadFailure)
     IN /\ persisted' = got.rec
        /\ inflight' = [inflight EXCEPT ![slot].phase = "loaded",
                                         ![slot].tree = got.tree]
  /\ UNCHANGED <<files, nextId, now, last, calls>>
  /\ UNCHANGED preview

\* the forest a loaded call hands to saveNotesTree
changedTree(call, tree, t) ==
  IF call.op = "createFolder" THEN insertNodeIntoTree(tree, call.node, call.a2)
  ELSE touchNode(tree, call.a1, t)

\* the calls that were between their load and their save take note of a save
NoteSave(slot) ==
  [s \in Slots |->
     IF s = slot THEN [inflight[s] EXCEPT !.phase = "returned"]
     ELSE IF inflight[s].phase = "loaded"
       THEN [inflight[s] EXCEPT !.after = @ \cup {[op |-> inflight[slot].op,
                                                   a1 |-> inflight[slot].a1,
                                                   at |-> now]}]
     ELSE inflight[s]]

\* saveNotesTree resolves inside a loaded call, and the call returns
SaveTree(slot) ==
  /\ inflight[slot].phase = "loaded"
  /\ LET call == inflight[slot]
         tree == treeOfCall(call, persisted)
     IN /\ IF call.op = "updateNote" /\ IsNull(findNodeInTree(tree, call.a1))
             THEN persisted' = persisted
             ELSE persisted' = saveNotesTree(persisted, changedTree(call, tree, now), FALSE)
        /\ last' = Call(call.op, call.a1, call.a2, "none", "ok", <<>>,
                        ~(call.op = "updateNote" /\ IsNull(findNodeInTree(tree, call.a1))),
                        {})
  /\ inflight' = NoteSave(slot)
  /\ UNCHANGED <<files, nextId, now, calls>>
  /\ UNCHANGED preview

NextRace ==
  \/ Tick
  \/ \E name \in MoveNames : CreateNote(name, NoId, FALSE, FALSE, NoLoadFailure, FALSE)
  \/ \E slot \in Slots, name \in MoveNames : StartCreateFolder(slot, name, NoId)
  \/ \E slot \in Slots, nodeId \in Ids : StartUpdateNote(slot, nodeId)
  \/ \E slot \in Slots : LoadTree(slot)
  \/ \E slot \in Slots : SaveTree(slot)

SpecRace == Init /\ [][NextRace]_vars

\* --------------------------------------------------- AI completion preview
\* the decoration plugin's apply on a transaction with a preview meta: the
\* widget shows previewText if the preview is active, has text and a position
decorate(state) ==
  IF state.isPreviewActive /\ state.previewText # NoText
       /\ state.previewPosition # NoPosition
    THEN state.previewText ELSE NoText

\* clearCompletionPreview: the state afterwards
clearCompletionPreview(state) ==
  [state EXCEPT !.isPreviewActive = FALSE, !.previewText = NoText,
                !.previewPosition = NoPosition]

\* the streams that were delivering when the preview was cleared
Supersede(strs) ==
  [r \in Requests |->
     IF strs[r].phase = "open" THEN [strs[r] EXCEPT !.superseded = TRUE] ELSE strs[r]]

\* generateCompletionPreview up to the await of aiProvider.completions: the
\* preview is cleared and activated at the cursor, and the request is sent
generateCompletionPreview(r, state) ==
  /\ aiState' = [clearCompletionPreview(state) EXCEPT
                   !.isPreviewActive = TRUE, !.previewPosition = editor.cursor]
  /\ streams' = [Supersede(streams) EXCEPT ![r] =
                   [phase |-> "open", sent |-> 0, superseded |-> FALSE]]
  /\ editor' = [editor EXCEPT !.decoration = NoText]

\* acceptCompletionPreview with the preview active; inserted is the text
\* handed to markdownToHtml, whose outcome is inserted at insertedAt
acceptCompletionPreview ==
  /\ aiState' = clearCompletionPreview(aiState)
  /\ streams' = Supersede(streams)
  /\ editor' = IF aiState.accumulatedResponse # NoText
                 THEN [editor EXCEPT !.decoration = NoText,
                                     !.inserted = aiState.accumulatedResponse,
                                     !.insertedAt = aiState.previewPosition]
                 ELSE [editor EXCEPT !.decoration = NoText]

\* the Tab shortcut: accept the active preview, or else ask for a completion
\* of the text before the cursor
TabAccepts ==
  /\ aiState.isPreviewActive
  /\ aiState.previewPosition # NoPosition
  /\ acceptCompletionPreview
  /\ UNCHANGED notes

TabGenerates(r) ==
  /\ ~aiState.isPreviewActive
  /\ streams[r].phase = "none"
  /\ \A q \in 1 .. r - 1 : streams[q].phase # "none"
  /\ generateCompletionPreview(r, aiState)
  /\ UNCHANGED notes

\* the Escape shortcut with the preview active
Escape ==
  /\ aiState.isPreviewActive
  /\ aiState' = clearCompletionPreview(aiState)
  /\ streams' = Supersede(streams)
  /\ editor' = [editor EXCEPT !.decoration = NoText]
  /\ UNCHANGED notes

\* handleTextInput: the user types a character; in the auto mode the preview
\* is cleared and the completion timer set again
TextInput ==
  /\ editor.cursor < MaxCursor
  /\ IF editor.completionTriggerMode = "auto"
       THEN /\ aiState' = [(IF aiState.isPreviewActive
                              THEN clearCompletionPreview(aiState) ELSE aiState)
                             EXCEPT !.autoCompletionTimer = TRUE]
            /\ streams' = IF aiState.isPreviewActive THEN Supersede(streams) ELSE streams
            /\ editor' = [editor EXCEPT !.cursor = @ + 1,
                                        !.decoration = IF aiState.isPreviewActive
                                                         THEN NoText ELSE @]
       ELSE /\ editor' = [editor EXCEPT !.cursor = @ + 1]
            /\ UNCHANGED <<aiState, streams>>
  /\ UNCHANGED notes

\* the completion timer fires on a text that is long enough and has changed
AutoCompletion(r) ==
  /\ aiState.autoCompletionTimer
  /\ streams[r].phase = "none"
  /\ \A q \in 1 .. r - 1 : streams[q].phase # "none"
  /\ generateCompletionPreview(r, [aiState EXCEPT !.autoCompletionTimer = FALSE])
  /\ UNCHANGED notes

\* the completion timer fires on a text that is too short or has not changed
TimerExpires ==
  /\ aiState.autoCompletionTimer
  /\ aiState' = [aiState EXCEPT !.autoCompletionTimer = FALSE]
  /\ UNCHANGED <<streams, editor>>
  /\ UNCHANGED notes

\* onTextChunk of the stream of request r: the text so far
TextChunk(r) ==
  /\ streams[r].phase = "open"
  /\ streams[r].sent < MaxChunks
  /\ LET state == [aiState EXCEPT !.previewText = TextOf(r, streams[r].sent + 1)]
     IN /\ aiState' = state
        /\ editor' = [editor EXCEPT !.decoration = decorate(state)]
  /\ streams' = [streams EXCEPT ![r].sent = @ + 1]
  /\ UNCHANGED notes

\* onTextComplete of the stream of request r: the whole text
TextComplete(r) ==
  /\ streams[r].phase = "open"
  /\ streams[r].sent > 0
  /\ LET state == [aiState EXCEPT !.previewText = TextOf(r, streams[r].sent),
                                  !.accumulatedResponse = TextOf(r, streams[r].sent)]
     IN /\ aiState' = state
        /\ editor' = [editor EXCEPT !.decoration = decorate(state)]
  /\ streams' = [streams EXCEPT ![r].phase = "done"]
  /\ UNCHANGED notes

\* onError of the stream of request r
StreamError(r) ==
  /\ streams[r].phase = "open"
  /\ aiState' = [aiState EXCEPT !.isPreviewActive = FALSE, !.previewText = NoText]
  /\ editor' = [editor EXCEPT !.decoration = NoText]
  /\ streams' = [streams EXCEPT ![r].phase = "failed"]
  /\ UNCHANGED notes

\* aiProvider.completions rejects: the catch of generateCompletionPreview
\* resets the state and dispatches nothing
CompletionsRejects(r) ==
  /\ streams[r].phase = "open"
  /\ aiState' = [aiState EXCEPT !.isPreviewActive = FALSE, !.previewText = NoText]
  /\ streams' = [streams EXCEPT ![r].phase = "failed"]
  /\ UNCHANGED editor
  /\ UNCHANGED notes

InitPreview ==
  /\ persisted = <<>>
  /\ files = [i \in Ids |-> NoFile]
  /\ nextId = 0
  /\ now = 0
  /\ last = Call("init", NoId, NoId, "none", "ok", <<>>, FALSE, {})
  /\ calls = 0
  /\ inflight = [slot \in Slots |-> Idle]
  /\ NoPreview(TriggerModes)

NextPreview ==
  \/ TabAccepts
  \/ \E r \in Requests : TabGenerates(r)
  \/ Escape
  \/ TextInput
  \/ \E r \in Requests : AutoCompletion(r)
  \/ TimerExpires
  \/ \E r \in Requests : TextChunk(r)
  \/ \E r \in Requests : TextComplete(r)
  \/ \E r \in Requests : StreamError(r)
  \/ \E r \in Requests : CompletionsRejects(r)

SpecPreview == InitPreview /\ [][NextPreview]_vars

\* ------------------------------------------------------------------ claims
\* the nodes of a forest in pre-order
RECURSIVE Flatten(_)
Flatten(tree) ==
  IF tree = <<>> THEN <<>>
  ELSE <<Head(tree)>> \o Flatten(Head(tree).children) \o Flatten(Tail(tree))

NodeIds(tree) == { Flatten(tree)[i].id : i \in 1 .. Len(Flatten(tree)) }

\* the ids below the node with this id
DescendantIds(tree, id) ==
  LET hits == { i \in 1 .. Len(Flatten(tree)) : Flatten(tree)[i].id = id }
  IN UNION { NodeIds(Flatten(tree)[i].children) : i \in hits }

TypeOf(tree, id) == findNodeInTree(tree, id).type

NoSelfAncestor(tree) == \A id \in NodeIds(tree) : id \notin DescendantIds(tree, id)

IsMoveCall(c) == c.op \in {"sortNodes", "moveNode"}

\* the step is a service call
Called == calls' = calls + 1

\* C1: whatever moves are made, no node of the persisted forest is its own
\* ancestor, and a move 'inside' a proper descendant of the source folder
\* returns false and leaves the persisted forest as it was.
C1_MoveIntoDescendant ==
  (/\ Called
   /\ IsMoveCall(last')
   /\ last'.a3 = "inside"
   /\ TypeOf(persisted, last'.a1) = "folder"
   /\ last'.a2 \in DescendantIds(persisted, last'.a1))
  => (last'.ret = "false" /\ persisted' = persisted)

C2_SelfMove ==
  (/\ Called
   /\ last'.op = "sortNodes"
   /\ last'.a3 = "inside"
   /\ last'.a1 = last'.a2
   /\ TypeOf(persisted, last'.a1) = "folder")
  => (last'.ret = "false" /\ persisted' = persisted)

C2_SelfMoveRejected == [][C2_SelfMove]_vars

\* C3: a move that returns false has persisted nothing, and a move whose
\* physical move failed returns false.
C3_FailedMove ==
  (Called /\ IsMoveCall(last'))
  => /\ last'.ret = "false" => persisted' = persisted
     /\ "physical" \in last'.faults => last'.ret = "false"

C3_MoveAtomic == [][C3_FailedMove]_vars

\* sortNodes gave up after it had taken the source out of the forest in memory
C3_Witness ==
  /\ last.op = "sortNodes"
  /\ last.a3 = "before"
  /\ last.ret = "false"
  /\ last.faults = {}
  /\ last.a1 \in NodeIds(persisted)
  /\ last.a2 \in DescendantIds(persisted, last.a1)

\* C6: no file node of the persisted forest has children.
C6_FilesHaveNoChildren ==
  \A i \in 1 .. Len(Flatten(persisted)) :
    Flatten(persisted)[i].type = "file" => Flatten(persisted)[i].children = <<>>

\* a folder was dropped inside a file, or created with a file for parent
C6_Witness ==
  \/ /\ last.op = "sortNodes"
     /\ last.a3 = "inside"
     /\ TypeOf(persisted, last.a1) = "folder"
     /\ TypeOf(persisted, last.a2) = "file"
  \/ /\ last.op = "createFolder"
     /\ TypeOf(persisted, last.a2) = "file"

\* the file nodes of a forest in pre-order
FileNodes(tree) == SelectSeq(Flatten(tree), LAMBDA n : n.type = "file")

FileIdsBelow(tree, id) ==
  { n.fileId : n \in { FileNodes(tree)[i] : i \in 1 .. Len(FileNodes(tree)) } }
    \cap DescendantIds(tree, id)

\* C4 as claimed: once deleteNode on a folder has completed, the folder and
\* its descendants are out of the persisted forest and no descendant file has
\* a record left in the file manager.
C4_Cascade ==
  (/\ Called
   /\ last'.op = "deleteNode"
   /\ last'.ret = "ok"
   /\ TypeOf(persisted, last'.a1) = "folder")
  => /\ ({last'.a1} \cup DescendantIds(persisted, last'.a1)) \cap NodeIds(persisted') = {}
     /\ \A d \in FileIdsBelow(persisted, last'.a1) : ~files'[d].present

C4_CascadeUnlessRejected ==
  (/\ Called
   /\ last'.op = "deleteNode"
   /\ last'.ret = "ok"
   /\ TypeOf(persisted, last'.a1) = "folder")
  => /\ "put" \notin last'.faults
          => ({last'.a1} \cup DescendantIds(persisted, last'.a1))
               \cap NodeIds(persisted') = {}
     /\ "deleteFile" \notin last'.faults
          => \A d \in FileIdsBelow(persisted, last'.a1) : ~files'[d].present

C5_UniqueIds ==
  \A i, j \in 1 .. Len(Flatten(persisted)) :
    i # j => Flatten(persisted)[i].id # Flatten(persisted)[j].id

\* a node of a forest of several nodes has been moved
C5_Witness ==
  /\ last.op = "sortNodes"
  /\ last.ret = "true"
  /\ last.a1 \in NodeIds(persisted)
  /\ Len(Flatten(persisted)) >= 2

\* C7 as claimed: a getNotesTree that follows a getNotesTree returns the same
\* forest and does not write the record.
C7_SecondLoad ==
  (Called /\ last.op = "getNotesTree" /\ last'.op = "getNotesTree")
  => (last'.tree = last.tree /\ ~last'.wrote)

C7_SecondLoadNoFault ==
  (/\ Called
   /\ last.op = "getNotesTree"
   /\ last'.op = "getNotesTree"
   /\ last.faults = {}
   /\ last'.faults = {})
  => (last'.tree = last.tree /\ ~last'.wrote)

RECURSIVE Skeleton(_)
Skeleton(tree) ==
  IF tree = <<>> THEN <<>>
  ELSE (IF Head(tree).type = "file" THEN <<>>
        ELSE <<[Head(tree) EXCEPT !.children = Skeleton(Head(tree).children)]>>)
       \o Skeleton(Tail(tree))

\* C8: a getNotesTree without storage failure returns a forest in which every
\* file node has a record and bears its display name, which has every file
\* node that has a record and the folders as they were, and which is the
\* persisted forest.
C8_Load ==
  (Called /\ last'.op = "getNotesTree" /\ last'.faults = {})
  => LET tree == last'.tree
     IN /\ \A i \in 1 .. Len(FileNodes(tree)) :
             /\ files[FileNodes(tree)[i].fileId].present
             /\ FileNodes(tree)[i].name = files[FileNodes(tree)[i].fileId].origin_name
        /\ \A i \in 1 .. Len(FileNodes(persisted)) :
             files[FileNodes(persisted)[i].fileId].present
               => FileNodes(persisted)[i].id \in NodeIds(tree)
        /\ Skeleton(tree) = Skeleton(persisted)
        /\ persisted' = tree

C8_Reconciled == [][C8_Load]_vars

\* a load has pruned a file node and written the record, folders in the forest
C8_Witness ==
  /\ last.op = "getNotesTree"
  /\ last.faults = {}
  /\ last.wrote
  /\ Skeleton(last.tree) # <<>>
  /\ \E d \in 1 .. nextId : d \notin NodeIds(last.tree) /\ ~files[d].present

\* the top level of a forest and the children list of each of its nodes
Levels(tree) == {tree} \cup { Flatten(tree)[i].children : i \in 1 .. Len(Flatten(tree)) }

\* C9: after a sortAllLevels call that completed, at the top level and in
\* every children list of the persisted forest all folders precede all files.
C9_FoldersFirst ==
  (last.op = "sortAllLevels" /\ last.ret = "ok")
  => \A list \in Levels(persisted) : \A i, j \in 1 .. Len(list) :
       (list[i].type = "file" /\ list[j].type = "folder") => j < i

\* a sort has left a folder and a file in one children list below the top
C9_Witness ==
  /\ last.op = "sortAllLevels"
  /\ last.ret = "ok"
  /\ \E k \in 1 .. Len(persisted) :
       /\ \E i \in 1 .. Len(persisted[k].children) :
            persisted[k].children[i].type = "folder"
       /\ \E i \in 1 .. Len(persisted[k].children) :
            persisted[k].children[i].type = "file"

\* a precedes or equals b in the order of the sort type, an absent timestamp
\* counting as 0
KeyOrdered(sortType, a, b) ==
  LET At(x) == IF x = NoTime THEN 0 ELSE x
  IN CASE sortType = "sort_a2z" -> comparePrimary(a.name, b.name) <= 0
       [] sortType = "sort_z2a" -> comparePrimary(a.name, b.name) >= 0
       [] sortType = "sort_updated_asc" -> At(a.updatedAt) <= At(b.updatedAt)
       [] sortType = "sort_updated_desc" -> At(a.updatedAt) >= At(b.updatedAt)
       [] sortType = "sort_created_asc" -> At(a.createdAt) <= At(b.createdAt)
       [] sortType = "sort_created_desc" -> At(a.createdAt) >= At(b.createdAt)

\* C10: after a sortAllLevels call that completed, at every level of the
\* persisted forest two nodes of the same type stand in the order of the
\* requested key and direction, an absent timestamp counting as epoch zero.
C10_GroupsOrdered ==
  (last.op = "sortAllLevels" /\ last.ret = "ok")
  => \A list \in Levels(persisted) : \A i, j \in 1 .. Len(list) :
       (i < j /\ list[i].type = list[j].type) => KeyOrdered(last.a3, list[i], list[j])

\* a sort by update time has put a node without updatedAt before a node of
\* the same type that has a later one
C10_Witness ==
  /\ last.op = "sortAllLevels"
  /\ last.ret = "ok"
  /\ last.a3 = "sort_updated_asc"
  /\ \E list \in Levels(persisted) : \E i, j \in 1 .. Len(list) :
       /\ i < j
       /\ list[i].type = list[j].type
       /\ list[i].updatedAt = NoTime
       /\ list[j].updatedAt > 0

\* the last piece of a path and the pieces before it
LastSegment(path) == path[Len(path)]

AncestorSegments(path) == SubSeq(path, 1, Len(path) - 1)

\* the step is a completed renameNode of a file node that has a treePath
RenamesFileWithPath ==
  /\ Called
  /\ last'.op = "renameNode"
  /\ last'.ret = "ok"
  /\ ~IsNull(findNodeInTree(persisted, last'.a1))
  /\ ~IsNull(findNodeInTree(persisted', last'.a1))
  /\ findNodeInTree(persisted, last'.a1).type = "file"
  /\ findNodeInTree(persisted, last'.a1).treePath # NoPath

\* C11: after renameNode on a file node that has a treePath, the treePath of
\* the node ends with the node's new name and the segments before it are the
\* ones it had before the rename.
C11_PathFollowsName ==
  RenamesFileWithPath =>
    LET before == findNodeInTree(persisted, last'.a1)
        after == findNodeInTree(persisted', last'.a1)
    IN /\ after.treePath # NoPath
       /\ LastSegment(after.treePath) = after.name
       /\ AncestorSegments(after.treePath) = AncestorSegments(before.treePath)

C11_RenameUpdatesPath == [][C11_PathFollowsName]_vars

\* the name ends with '.md' in whatever case
EndsWithMdIgnoringCase(name) ==
  /\ Len(name) >= 3
  /\ name[Len(name) - 2] = "."
  /\ name[Len(name) - 1] \in {"m", "M"}
  /\ name[Len(name)] \in {"d", "D"}

\* the name renameNode is to store for a node of this type
ExpectedFinalName(type, newName) ==
  IF type = "file" /\ ~EndsWithMdIgnoringCase(newName)
    THEN newName \o <<".", "m", "d">>
    ELSE newName

\* the call was a renameNode that completed with no collaborator call rejected
RenameCompleted(c) == c.op = "renameNode" /\ c.ret = "ok" /\ c.faults = {}

\* a completed renameNode leaves the node in the persisted forest under its
\* final name and stamped with the current time, and the metadata record of a
\* file node under the same name
C12_Renamed ==
  (Called /\ RenameCompleted(last')) =>
    LET before == findNodeInTree(persisted, last'.a1)
        after == findNodeInTree(persisted', last'.a1)
    IN /\ ~IsNull(before)
       /\ ~IsNull(after)
       /\ last'.wrote
       /\ after.name = ExpectedFinalName(before.type, last'.a2)
       /\ after.updatedAt = now
       /\ after.type = "file" =>
            /\ files'[after.fileId].present
            /\ files'[after.fileId].origin_name = after.name

\* the getNotesTree that follows a completed renameNode returns the node
\* under its final name
C12_Reread ==
  (/\ RenameCompleted(last)
   /\ Called
   /\ last'.op = "getNotesTree"
   /\ last'.faults = {})
  => /\ ~IsNull(findNodeInTree(last'.tree, last.a1))
     /\ findNodeInTree(last'.tree, last.a1).name
          = ExpectedFinalName(findNodeInTree(last'.tree, last.a1).type, last.a2)

\* C12: renameNode of the internal variant stores newName with '.md' appended
\* unless it already ends with '.md' in any case for a file node and newName
\* itself for a folder, refreshes updatedAt, sets the display name of the
\* metadata record to the same name and persists the forest; the following
\* getNotesTree returns the node under that name.
C12_RenameStoresFinalName == [][C12_Renamed]_vars /\ [][C12_Reread]_vars

\* a note has been given a name without the extension, later than it was made
C12_Witness ==
  /\ RenameCompleted(last)
  /\ ~IsNull(findNodeInTree(persisted, last.a1))
  /\ findNodeInTree(persisted, last.a1).type = "file"
  /\ findNodeInTree(persisted, last.a1).name = last.a2 \o MARKDOWN_EXT
  /\ findNodeInTree(persisted, last.a1).updatedAt > findNodeInTree(persisted, last.a1).createdAt

\* '/' followed by the names of the ancestors of the node from the root down
\* and by its own name, as path pieces
RECURSIVE PathFromRoot(_, _)
PathFromRoot(tree, id) ==
  IF IsNull(findParentNode(tree, id))
    THEN << <<>>, findNodeInTree(tree, id).name >>
    ELSE Append(PathFromRoot(tree, findParentNode(tree, id).id),
                findNodeInTree(tree, id).name)

\* the file nodes at or below the node with this id
FilesAtOrBelow(tree, id) ==
  { n \in NodeIds(tree) : /\ n = id \/ n \in DescendantIds(tree, id)
                          /\ TypeOf(tree, n) = "file" }

\* the step is a createNote or a move of the internal variant that completed
\* and left its node in the persisted forest
PlacesNode ==
  /\ Called
  /\ \/ last'.op \in {"createNote", "moveNodeToParent"} /\ last'.ret = "ok"
     \/ last'.op = "sortNodes" /\ last'.ret = "true"
  /\ last'.wrote
  /\ last'.a1 \in NodeIds(persisted')

C13_PathsOfPlaced ==
  PlacesNode =>
    \A n \in FilesAtOrBelow(persisted', last'.a1) :
      findNodeInTree(persisted', n).treePath = PathFromRoot(persisted', n)

\* C13: after createNote, and after sortNodes or moveNode has moved a node,
\* the treePath of the created or moved file node, and of every file node in
\* a moved folder's subtree, is '/' followed by the names of its ancestors
\* from the root down and its own name, joined by '/'.
C13_PathDerivedFromAncestors == [][C13_PathsOfPlaced]_vars

\* every file node of the forest has its record, under the node's name, so
\* that loading the forest changes nothing
InSync(tree, fls) ==
  \A n \in NodeIds(tree) :
    TypeOf(tree, n) = "file" =>
      /\ fls[findNodeInTree(tree, n).fileId].present
      /\ fls[findNodeInTree(tree, n).fileId].origin_name = findNodeInTree(tree, n).name

\* the forest with the node added after the last child of the node parentId
RECURSIVE AppendUnder(_, _, _)
AppendUnder(tree, parentId, node) ==
  [i \in 1 .. Len(tree) |->
     IF tree[i].id = parentId
       THEN [tree[i] EXCEPT !.children = Append(tree[i].children, node)]
       ELSE [tree[i] EXCEPT !.children = AppendUnder(tree[i].children, parentId, node)]]

AppendedTo(tree, parentId, node) ==
  IF parentId = NoId THEN Append(tree, node) ELSE AppendUnder(tree, parentId, node)

IsCreateCall(c) == c.op \in {"createFolder", "createNote"}

\* the step is a createFolder or createNote without rejection, with no parent
\* or with a folder of the forest as parent
CreatesUnderFolder ==
  /\ Called
  /\ IsCreateCall(last')
  /\ last'.faults = {}
  /\ InSync(persisted, files)
  /\ \/ last'.a2 = NoId
     \/ last'.a2 \in NodeIds(persisted) /\ TypeOf(persisted, last'.a2) = "folder"

C14_Appended ==
  CreatesUnderFolder =>
    /\ last'.ret = "ok"
    /\ last'.a1 \notin NodeIds(persisted)
    /\ last'.a1 \in NodeIds(persisted')
    /\ TypeOf(persisted', last'.a1) = (IF last'.op = "createFolder" THEN "folder" ELSE "file")
    /\ findNodeInTree(persisted', last'.a1).children = <<>>
    /\ persisted' = AppendedTo(persisted, last'.a2, findNodeInTree(persisted', last'.a1))

CreatesUnderInvalidParent ==
  /\ Called
  /\ IsCreateCall(last')
  /\ last'.faults = {}
  /\ last'.a2 # NoId
  /\ \/ last'.a2 \notin NodeIds(persisted)
     \/ TypeOf(persisted, last'.a2) = "file"

C15_RejectedOrTopLevel ==
  CreatesUnderInvalidParent =>
    \/ last'.ret = "throw" /\ persisted' = persisted
    \/ /\ last'.ret = "ok"
       /\ \E i \in 1 .. Len(persisted') : persisted'[i].id = last'.a1

\* C15: createFolder and createNote with a parentId that is the id of a file
\* node or of no node either reject with an error or insert the new node at
\* the top level; they never return a node that is not in the persisted forest.
C15_InvalidParentPolicy == [][C15_RejectedOrTopLevel]_vars

\* the rejections of the backing storage, of the metadata store and of the
\* write of the tree record inside a create or a rename
CriticalFaults == {"write", "addFile", "meta", "put"}

\* the step is a createFolder, createNote or renameNode in which one of them occurred
FailsOnCriticalPath ==
  /\ Called
  /\ last'.op \in {"createFolder", "createNote", "renameNode"}
  /\ last'.faults \cap CriticalFaults # {}

C16_Propagated ==
  FailsOnCriticalPath => (last'.ret = "throw" /\ persisted' = persisted)

\* C16: when a backing-storage, metadata-store or tree-persistence operation
\* fails during createFolder, createNote or renameNode, the call throws and
\* the persisted forest is the one before the call; no call reports success
\* while its change of the tree is not persisted.
C16_FailuresPropagate == [][C16_Propagated]_vars

\* the step is a deleteNode or renameNode, of either variant, with an id that
\* is the id of no node, on a forest in agreement with the metadata store
MissesNode ==
  /\ Called
  /\ last'.op \in {"deleteNode", "renameNode", "externalDeleteNode", "externalRenameNode"}
  /\ last'.a1 \notin NodeIds(persisted)
  /\ InSync(persisted, files)

C17_Untouched ==
  MissesNode =>
    /\ last'.ret = "throw"
    /\ last'.error = "Node not found"
    /\ last'.io = {}
    /\ persisted' = persisted
    /\ files' = files

MovesUnresolved ==
  /\ Called
  /\ IsMoveCall(last')
  /\ \/ last'.a1 \notin NodeIds(persisted)
     \/ last'.a2 \notin NodeIds(persisted)

C18_Refused ==
  MovesUnresolved =>
    /\ last'.ret = "false"
    /\ last'.error = "none"
    /\ last'.io = {}
    /\ "physical" \notin last'.faults
    /\ ~last'.wrote
    /\ persisted' = persisted
    /\ files' = files

C19_ReadFailure ==
  (Called /\ last'.op = "getNotesTree" /\ "get" \in last'.faults) =>
    /\ last'.ret = "ok"
    /\ last'.error = "none"
    /\ last'.tree = <<>>
    /\ ~last'.wrote
    /\ persisted' = persisted

\* a getNotesTree in which only the metadata store rejects returns the forest
\* as it is stored
C19_ReconciliationFailure ==
  (Called /\ last'.op = "getNotesTree" /\ "getFile" \in last'.faults) =>
    /\ last'.ret = "ok"
    /\ last'.error = "none"
    /\ last'.tree = persisted
    /\ persisted' = persisted

\* C19: getNotesTree fails silently: when the read of the persisted record
\* fails it returns the empty forest without throwing and leaves the record
\* as it is; when only the reconciliation against the metadata store fails
\* it returns the forest as loaded.
C19_FailsSilently == [][C19_ReadFailure]_vars /\ [][C19_ReconciliationFailure]_vars

\* the read of a record that holds nodes has failed
C19_Witness ==
  /\ last.op = "getNotesTree"
  /\ last.faults = {"get"}
  /\ last.tree = <<>>
  /\ persisted # <<>>

\* the step is a renameNode of the external variant on a node of the forest
\* for which checkFileName answers that the requested name exists
RenamesToTakenName ==
  /\ Called
  /\ last'.op = "externalRenameNode"
  /\ last'.a3 = "taken"
  /\ "get" \notin last'.faults
  /\ last'.a1 \in NodeIds(persisted)

C20_Conflict ==
  RenamesToTakenName =>
    /\ last'.ret = "throw"
    /\ last'.error = "Target name already exists"
    /\ last'.io = {}
    /\ ~last'.wrote
    /\ persisted' = persisted

\* C20: renameNode of the external variant, when the backing storage reports
\* the requested name as taken in the node's directory, throws the error that
\* names the conflict, renames no file or directory and leaves the tree as it is.
C20_TakenNameRejected == [][C20_Conflict]_vars

\* a rename of a node of the forest has met a taken name
C20_Witness ==
  /\ last.op = "externalRenameNode"
  /\ last.a3 = "taken"
  /\ last.error = "Target name already exists"
  /\ last.a1 \in NodeIds(persisted)
  /\ findNodeInTree(persisted, last.a1).name # last.a2

\* the flag a toggle is about, and the node type that has it
FlagOf(op) == IF op = "toggleNodeExpanded" THEN "expanded" ELSE "is_starred"

SupportsFlag(type, op) ==
  IF op = "toggleNodeExpanded" THEN type = "folder" ELSE type = "file"

\* the forest with one flag of the node with this id inverted
RECURSIVE Flipped(_, _, _)
Flipped(tree, id, flag) ==
  [i \in 1 .. Len(tree) |->
     IF tree[i].id = id
       THEN [tree[i] EXCEPT ![flag] = ~tree[i][flag]]
       ELSE [tree[i] EXCEPT !.children = Flipped(tree[i].children, id, flag)]]

\* the step is a toggle on a forest in agreement with the metadata store
Toggles ==
  /\ Called
  /\ last'.op \in {"toggleNodeExpanded", "toggleStarred"}
  /\ InSync(persisted, files)

C21_Toggled ==
  Toggles =>
    /\ last'.ret = "ok"
    /\ IF /\ last'.a1 \in NodeIds(persisted)
          /\ SupportsFlag(TypeOf(persisted, last'.a1), last'.op)
         THEN persisted' = Flipped(persisted, last'.a1, FlagOf(last'.op))
         ELSE persisted' = persisted

\* C21: toggleNodeExpanded and toggleStarred invert exactly one flag of one
\* node and persist; when the id resolves to no node, or the node is a file
\* for toggleNodeExpanded or a folder for toggleStarred, they change nothing
\* and throw nothing.
C21_ToggleFlipsOneFlag == [][C21_Toggled]_vars

\* ---- C22: the notes page never has two service calls that load, change and
\* save the persisted forest under way at once: each call has returned before
\* the next one is started.
UnderWay == { s \in Slots : inflight[s].phase \in {"started", "loaded"} }

C22_OneAtATime == Cardinality(UnderWay) <= 1

\* ---- C23: when a call writes the forest after calls that saved since it
\* loaded, it returns and the persisted forest is left without their changes: the folder of an
\* overtaken createFolder is not in it, and the note of an overtaken
\* updateNote has the updatedAt it had in the forest the saving call loaded,
\* unless the saving call is an updateNote of that same note.
Saves(slot) ==
  /\ inflight[slot].phase = "loaded"
  /\ inflight'[slot].phase = "returned"

LacksChange(forest, c, call) ==
  IF c.op = "createFolder" THEN c.a1 \notin NodeIds(forest)
  ELSE \/ call.op = "updateNote" /\ call.a1 = c.a1
       \/ c.a1 \notin NodeIds(call.tree)
       \/ findNodeInTree(forest, c.a1).updatedAt
            = findNodeInTree(call.tree, c.a1).updatedAt

C23_Overwritten ==
  \A slot \in Slots :
    Saves(slot) /\ last'.wrote =>
      /\ last'.ret = "ok"
      /\ \A c \in inflight[slot].after : LacksChange(persisted', c, inflight[slot])

C23_LaterSaveLosesEarlierChange == [][C23_Overwritten]_vars

\* two createFolder calls have both returned and the folder of the one that
\* saved first is not in the persisted forest
C23_Witness ==
  \E s \in Slots : \E q \in Slots \ {s} :
    /\ inflight[s].phase = "returned" /\ inflight[s].op = "createFolder"
    /\ inflight[q].phase = "returned" /\ inflight[q].op = "createFolder"
    /\ \E c \in inflight[s].after : c.op = "createFolder" /\ c.a1 = inflight[q].a1
    /\ inflight[q].a1 \notin NodeIds(persisted)
    /\ inflight[s].a1 \in NodeIds(persisted)

\* ---- C24: a deleteNode of the internal variant on a folder during which
\* FileManager.deleteFile rejects for a file below it does not throw, hands
\* every file below the folder to FileManager.deleteFile, deleting those that
\* do not fail, and persists the forest without the folder and everything
\* below it, the other nodes staying as they were.
DeletesFolderWithFailure ==
  /\ Called
  /\ last'.op = "deleteNode"
  /\ InSync(persisted, files)
  /\ TypeOf(persisted, last'.a1) = "folder"
  /\ "deleteFile" \in last'.faults
  /\ "put" \notin last'.faults

C24_BestEffort ==
  DeletesFolderWithFailure =>
    /\ last'.ret = "ok"
    /\ last'.attempted = FilesAtOrBelow(persisted, last'.a1)
    /\ last'.failed # {}
    /\ \A i \in last'.attempted \ last'.failed : ~files'[i].present
    /\ \A i \in Ids \ (last'.attempted \ last'.failed) : files'[i] = files[i]
    /\ persisted' = removeNodeFromTree(persisted, last'.a1).tree
    /\ NodeIds(persisted') =
         NodeIds(persisted) \ ({last'.a1} \cup DescendantIds(persisted, last'.a1))

C24_DeleteIsBestEffort == [][C24_BestEffort]_vars

\* a folder with two notes was deleted, the deletion of one note's file
\* failed, the other note's file is gone, and the folder is out of the forest
C24_Witness ==
  /\ last.op = "deleteNode"
  /\ last.ret = "ok"
  /\ Cardinality(last.attempted) = 2
  /\ Cardinality(last.failed) = 1
  /\ \E i \in last.attempted \ last.failed : ~files[i].present
  /\ \E i \in last.failed : files[i].present
  /\ last.a1 \notin NodeIds(persisted)

\* ---- C25: a sortNodes that returns true leaves the source immediately
\* before the target ('before') or immediately after it ('after') in the
\* target's sibling list, or as the last child of the target folder, which is
\* expanded ('inside'); the source keeps its subtree and all other nodes keep
\* their places.
RECURSIVE Without(_, _)
Without(tree, id) ==
  IF tree = <<>> THEN <<>>
  ELSE IF Head(tree).id = id THEN Without(Tail(tree), id)
  ELSE <<[Head(tree) EXCEPT !.children = Without(Head(tree).children, id)]>>
         \o Without(Tail(tree), id)

RECURSIVE Expanded(_, _)
Expanded(tree, id) ==
  [i \in 1 .. Len(tree) |->
     IF tree[i].id = id THEN [tree[i] EXCEPT !.expanded = TRUE]
     ELSE [tree[i] EXCEPT !.children = Expanded(tree[i].children, id)]]

\* the sibling lists of the forest: the top level and every children list
RECURSIVE SiblingLists(_)
SiblingLists(tree) ==
  {tree} \cup UNION { SiblingLists(tree[i].children) : i \in 1 .. Len(tree) }

Adjacent(list, first, second) ==
  \E i \in 1 .. Len(list) - 1 : list[i].id = first /\ list[i + 1].id = second

SortSucceeded ==
  /\ Called
  /\ last'.op = "sortNodes"
  /\ last'.ret = "true"
  /\ last'.wrote
  /\ InSync(persisted, files)

C25_Placed ==
  SortSucceeded =>
    LET source == last'.a1
        target == last'.a2
        position == last'.a3
        intoFolder == position = "inside" /\ TypeOf(persisted, target) = "folder"
    IN /\ source \in NodeIds(persisted')
       /\ findNodeInTree(persisted', source).children
            = findNodeInTree(persisted, source).children
       /\ Without(persisted', source)
            = IF intoFolder THEN Expanded(Without(persisted, source), target)
              ELSE Without(persisted, source)
       /\ position = "before" =>
            \E list \in SiblingLists(persisted') : Adjacent(list, source, target)
       /\ position = "after" =>
            \E list \in SiblingLists(persisted') : Adjacent(list, target, source)
       /\ intoFolder =>
            LET children == findNodeInTree(persisted', target).children
            IN /\ Len(children) > 0
               /\ children[Len(children)].id = source
               /\ findNodeInTree(persisted', target).expanded

C25_SortPlacesSource == [][C25_Placed]_vars

\* ---- C26: sortNodes and moveNode(nodeId, newParentId) of the internal
\* variant leave the set of node ids of the persisted forest as it was,
\* whatever their arguments and whether they succeed or fail.
MovesInternally ==
  /\ Called
  /\ last'.op \in {"sortNodes", "moveNodeToParent"}
  /\ InSync(persisted, files)

C26_Conserved == MovesInternally => NodeIds(persisted') = NodeIds(persisted)

C26_MovesConserveNodes == [][C26_Conserved]_vars

\* ---- C27: every node of the persisted forest before a createFolder,
\* createNote, uploadNote, renameNode, updateNote or toggle is in it after the
\* call, also when the read of the record inside the call fails.
NonDeletingOps ==
  {"createFolder", "createNote", "uploadNote", "renameNode", "updateNote",
   "toggleNodeExpanded", "toggleStarred"}

EditsWithoutDeleting ==
  /\ Called
  /\ last'.op \in NonDeletingOps
  /\ InSync(persisted, files)

C27_Kept == EditsWithoutDeleting => NodeIds(persisted) \subseteq NodeIds(persisted')

C27_NonDeletingKeepNodes == [][C27_Kept]_vars

\* ---- C28: in the internal variant, as long as no storage call fails, the
\* note records of the file manager and the file nodes of the persisted
\* forest correspond one to one: every record is the fileId of exactly one
\* file node and every file node's fileId has its record.
FileNodeIds(tree) == { n \in NodeIds(tree) : TypeOf(tree, n) = "file" }

NoteRecords == { i \in Ids : files[i].present }

C28_OneToOne ==
  /\ NoteRecords = { findNodeInTree(persisted, n).fileId : n \in FileNodeIds(persisted) }
  /\ \A n \in FileNodeIds(persisted), m \in FileNodeIds(persisted) :
       findNodeInTree(persisted, n).fileId = findNodeInTree(persisted, m).fileId => n = m

\* ---- C29: on the same forest and for the same source, target and position
\* the internal sortNodes and the external moveNode, with no storage or file
\* system failure, both return false or both return true.
sortNodesRefuses(tree, sourceNodeId, targetNodeId, position, t) ==
  LET sourceNode == findNodeInTree(tree, sourceNodeId)
      targetNode == findNodeInTree(tree, targetNodeId)
  IN \/ sortNodesRejects(tree, sourceNode, targetNode, position)
     \/ ~placeNode(tree, tree, sourceNode, targetNode, position, t).ok

moveNodeRefuses(tree, sourceNodeId, targetNodeId, position, t) ==
  LET sourceNode == findNodeInTree(tree, sourceNodeId)
      targetNode == findNodeInTree(tree, targetNodeId)
  IN \/ moveNodeRejects(tree, sourceNode, targetNode, position)
     \/ ~moveNodeInTree(tree, tree, sourceNodeId, targetNodeId, position, t, FALSE).ok

MovesWithoutFailure ==
  /\ Called
  /\ IsMoveCall(last')
  /\ last'.faults = {}
  /\ InSync(persisted, files)

C29_SameVerdict ==
  MovesWithoutFailure =>
    /\ last'.op = "sortNodes" =>
         (last'.ret = "false"
            <=> moveNodeRefuses(persisted, last'.a1, last'.a2, last'.a3, now))
    /\ last'.op = "moveNode" =>
         (last'.ret = "false"
            <=> sortNodesRefuses(persisted, last'.a1, last'.a2, last'.a3, now))

C29_VariantsValidateAlike == [][C29_SameVerdict]_vars

\* ---- C30: once generateCompletionPreview was started again or the preview
\* was cleared, a chunk or the completion of a stream that was delivering at
\* that time changes neither the preview text displayed nor the text that a
\* Tab accept inserts.
SupersededStreamDelivers ==
  \E r \in Requests :
    /\ streams[r].superseded
    /\ streams[r].phase = "open"
    /\ \/ streams'[r].sent # streams[r].sent
       \/ streams'[r].phase = "done"

C30_Ignored ==
  SupersededStreamDelivers =>
    /\ editor'.decoration = editor.decoration
    /\ aiState'.accumulatedResponse = aiState.accumulatedResponse

C30_PreviewShowsLatestOnly == [][C30_Ignored]_vars
====
